---- MODULE Spec2Model ----
(***************************************************************************)
(* Model of wa_sesiones_a_timesheets.py: the day's WhatsApp messages are   *)
(* read from Odoo, cut into sessions per channel by inactivity, the        *)
(* session time is shared among the operators that wrote in it, and one    *)
(* account.analytic.line is created per (session, operator), found again   *)
(* on a later run through the signature embedded in its name.              *)
(***************************************************************************)
EXTENDS Integers, Sequences, FiniteSets, TLC

\* ------------------------------------------------------------ bounds
\* Largest number of mail.message records of the segmentation inputs.
MaxMsgs == 4

\* Largest number of rows of a fetch of the diaries.
MaxRows == 2

\* ------------------------------------------------- encodings of the data
\* pandas NaT / NaN: a date that did not parse, a diff with no predecessor.
NaT == -1
\* author_id False: a message without author.
None == 0
\* total_seconds().div(60): seconds in a minute.
SecPerMin == 60
\* Seconds in a local day (00:00:00 .. 23:59:59).
DaySecs == 86400

\* ------------------------------------------------- the Odoo database
\* Model of the channels (model_exists "discuss.channel").
channel_model == "discuss.channel"

\* Channels of channel_type "whatsapp": id -> name (ch_map).
ch_map == (1 :> "Acme") @@ (2 :> "Beta")

\* Partners of the internal users (share = False).
internal_partner_ids == {1, 2, 3}

\* Display name of a partner (author_id[1]).
autor_name(p) ==
    CASE p = 1 -> "Ana"
      [] p = 2 -> "Beto"
      [] p = 3 -> "Caro"
      [] p = 9 -> "Cliente"
      [] OTHER -> ""

\* ------------------------------------------------- float64 arithmetic
\* The weights and times of the program are Python/numpy float64 values. A
\* value is modelled exactly, as m * 2^e with m an integer of MantBits bits
\* (zero: m empty), and every operation rounds its exact result to the
\* nearest such value, ties to even, as IEEE 754 does. m is a natural number
\* written in base Base, least significant digit first.
LimbBits == 15
Base == 2^LimbBits
\* Bits of the significand of a float64.
MantBits == 53
\* Extra quotient bits computed by a division before rounding.
GuardBits == 30

RECURSIVE BigNorm(_)
BigNorm(a) ==
    IF a # <<>> /\ a[Len(a)] = 0 THEN BigNorm(SubSeq(a, 1, Len(a) - 1)) ELSE a

RECURSIVE BigFromNat(_)
BigFromNat(n) == IF n = 0 THEN <<>> ELSE <<n % Base>> \o BigFromNat(n \div Base)

RECURSIVE BigToNat(_)
BigToNat(a) == IF a = <<>> THEN 0 ELSE Head(a) + Base * BigToNat(Tail(a))

RECURSIVE BigAddC(_, _, _)
BigAddC(a, b, c) ==
    IF a = <<>> /\ b = <<>> THEN BigFromNat(c)
    ELSE LET x == (IF a = <<>> THEN 0 ELSE Head(a)) + (IF b = <<>> THEN 0 ELSE Head(b)) + c
         IN  <<x % Base>> \o BigAddC(IF a = <<>> THEN <<>> ELSE Tail(a),
                                     IF b = <<>> THEN <<>> ELSE Tail(b), x \div Base)

BigAdd(a, b) == BigNorm(BigAddC(a, b, 0))

RECURSIVE BigMulSmallC(_, _, _)
BigMulSmallC(a, k, c) ==
    IF a = <<>> THEN BigFromNat(c)
    ELSE LET x == Head(a) * k + c
         IN  <<x % Base>> \o BigMulSmallC(Tail(a), k, x \div Base)

\* a * k for 0 <= k < Base.
BigMulSmall(a, k) == BigNorm(BigMulSmallC(a, k, 0))

RECURSIVE BigMul(_, _)
BigMul(a, b) ==
    IF a = <<>> \/ b = <<>> THEN <<>>
    ELSE BigAdd(BigMulSmall(a, Head(b)), BigNorm(<<0>> \o BigMul(a, Tail(b))))

\* Quotient and remainder of a by d, 0 < d < Base.
RECURSIVE BigDivSmall(_, _)
BigDivSmall(a, d) ==
    IF a = <<>> THEN [q |-> <<>>, r |-> 0]
    ELSE LET hi  == BigDivSmall(Tail(a), d)
             cur == hi.r * Base + Head(a)
         IN  [q |-> BigNorm(<<cur \div d>> \o hi.q), r |-> cur % d]

RECURSIVE NatBits(_)
NatBits(n) == IF n = 0 THEN 0 ELSE 1 + NatBits(n \div 2)

BigBits(a) == IF a = <<>> THEN 0 ELSE (Len(a) - 1) * LimbBits + NatBits(a[Len(a)])

\* -1, 0, 1 as a < b, a = b, a > b (a and b without leading zero digits).
RECURSIVE BigCmp(_, _)
BigCmp(a, b) ==
    IF Len(a) # Len(b) THEN (IF Len(a) < Len(b) THEN -1 ELSE 1)
    ELSE IF a = <<>> THEN 0
    ELSE IF a[Len(a)] # b[Len(b)] THEN (IF a[Len(a)] < b[Len(b)] THEN -1 ELSE 1)
    ELSE BigCmp(SubSeq(a, 1, Len(a) - 1), SubSeq(b, 1, Len(b) - 1))

Zeros(n) == [i \in 1..n |-> 0]

\* a * 2^n
BigShl(a, n) ==
    IF a = <<>> THEN <<>>
    ELSE BigMulSmall(Zeros(n \div LimbBits) \o a, 2^(n % LimbBits))

\* floor(a / 2^n)
BigShr(a, n) ==
    IF Len(a) <= n \div LimbBits THEN <<>>
    ELSE BigDivSmall(SubSeq(a, n \div LimbBits + 1, Len(a)), 2^(n % LimbBits)).q

\* a mod 2^n
BigLow(a, n) ==
    IF Len(a) <= n \div LimbBits THEN a
    ELSE BigNorm(SubSeq(a, 1, n \div LimbBits)
                 \o <<BigDivSmall(SubSeq(a, n \div LimbBits + 1, Len(a)),
                                  2^(n % LimbBits)).r>>)

BigOdd(a) == a # <<>> /\ Head(a) % 2 = 1

\* (a + f) / 2^n rounded to the nearest integer, ties to even; f is a
\* fraction in (0,1) when sticky and 0 otherwise.
RoundHalfEven(a, n, sticky) ==
    IF n = 0 THEN a
    ELSE LET q == BigShr(a, n)
             c == BigCmp(BigLow(a, n), BigShl(<<1>>, n - 1))
         IN  IF c > 0 \/ (c = 0 /\ (sticky \/ BigOdd(q))) THEN BigAdd(q, <<1>>) ELSE q

FZero == [m |-> <<>>, e |-> 0]

\* The float64 nearest to (a + f) * 2^e.
ToFloat(a, e, sticky) ==
    IF a = <<>> THEN FZero
    ELSE IF BigBits(a) <= MantBits
         THEN [m |-> BigShl(a, MantBits - BigBits(a)), e |-> e - (MantBits - BigBits(a))]
    ELSE LET n == BigBits(a) - MantBits
             r == RoundHalfEven(a, n, sticky)
         IN  IF BigBits(r) > MantBits THEN [m |-> BigShr(r, 1), e |-> e + n + 1]
             ELSE [m |-> r, e |-> e + n]

\* float(n) for a natural number n.
FNat(n) == ToFloat(BigFromNat(n), 0, FALSE)

\* x / d for a float x and an integer 0 < d < Base.
FDivNat(x, d) ==
    LET qr == BigDivSmall(BigShl(x.m, GuardBits), d)
    IN  ToFloat(qr.q, x.e - GuardBits, qr.r # 0)

FMin(a, b) == IF a <= b THEN a ELSE b

\* The significand of x at exponent lo <= x.e.
FAlign(x, lo) == BigShl(x.m, x.e - lo)

FLo(x, y) ==
    IF x.m = <<>> THEN y.e ELSE IF y.m = <<>> THEN x.e ELSE FMin(x.e, y.e)

\* x + y
FAdd(x, y) == ToFloat(BigAdd(FAlign(x, FLo(x, y)), FAlign(y, FLo(x, y))), FLo(x, y), FALSE)

\* x * y
FMul(x, y) == ToFloat(BigMul(x.m, y.m), x.e + y.e, FALSE)

\* x <= y
FLessEq(x, y) == BigCmp(FAlign(x, FLo(x, y)), FAlign(y, FLo(x, y))) <= 0

\* |x - y| <= k * 2^(-p), for naturals k and p.
FCloseTo(x, y, k, p) ==
    LET lo == FMin(FLo(x, y), 0 - p)
        a  == FAlign(x, lo)
        b  == FAlign(y, lo)
        t  == BigShl(BigFromNat(k), (0 - p) - lo)
    IN  BigCmp(a, BigAdd(b, t)) <= 0 /\ BigCmp(b, BigAdd(a, t)) <= 0

\* round(x * 100): the hundredths of Python's round(x, 2).
FHundredths(x) ==
    IF x.m = <<>> THEN 0
    ELSE IF x.e >= 0 THEN BigToNat(BigShl(BigMulSmall(x.m, 100), x.e))
    ELSE BigToNat(RoundHalfEven(BigMulSmall(x.m, 100), 0 - x.e, FALSE))

\* ------------------------------------------------------------ ingestion
\* to_local_day_bounds: first and last second of local day d.
to_local_day_bounds(d) == <<(d - 1) * DaySecs, (d - 1) * DaySecs + DaySecs - 1>>

\* Odoo's date domain ("date" >= ini, "date" <= fin); a record without date
\* satisfies no comparison.
InDay(m, d) ==
    /\ m.date # NaT
    /\ m.date >= to_local_day_bounds(d)[1]
    /\ m.date <= to_local_day_bounds(d)[2]

\* search(..., order="date asc"): the matching records as a list.
MsgBefore(a, b) ==
    \/ a.date < b.date
    \/ a.date = b.date /\ a.res_id < b.res_id
    \/ a.date = b.date /\ a.res_id = b.res_id /\ a.author_id < b.author_id
    \/ a.date = b.date /\ a.res_id = b.res_id /\ a.author_id = b.author_id
       /\ (a.model = channel_model \/ b.model # channel_model)

RECURSIVE search(_)
search(S) ==
    IF S = {} THEN <<>>
    ELSE LET m == CHOOSE x \in S : \A y \in S : MsgBefore(x, y)
         IN  <<m>> \o search(S \ {m})

\* The three searches of mail.message, each tried when the one before is empty.
fetch_model_res(table, d) ==
    {m \in table : m.model = channel_model /\ InDay(m, d) /\ m.res_id \in DOMAIN ch_map}

fetch_res(table, d) ==
    {m \in table : InDay(m, d) /\ m.res_id \in DOMAIN ch_map}

fetch_model(table, d) ==
    {m \in table : m.model = channel_model /\ InDay(m, d)}

fetch_messages(table, d) ==
    IF fetch_model_res(table, d) # {} THEN search(fetch_model_res(table, d))
    ELSE IF fetch_res(table, d) # {} THEN search(fetch_res(table, d))
    ELSE SelectSeq(search(fetch_model(table, d)), LAMBDA m : m.res_id \in DOMAIN ch_map)

\* One row of the DataFrame of messages.
msg_row(m) ==
    [ channel_id       |-> m.res_id,
      canal            |-> ch_map[m.res_id],
      fecha_local      |-> m.date,
      autor_partner_id |-> m.author_id,
      autor            |-> autor_name(m.author_id),
      es_operador      |-> (m.author_id # None /\ m.author_id \in internal_partner_ids) ]

RECURSIVE msg_rows(_)
msg_rows(msgs) ==
    IF msgs = <<>> THEN <<>>
    ELSE IF Head(msgs).res_id \notin DOMAIN ch_map THEN msg_rows(Tail(msgs))
    ELSE <<msg_row(Head(msgs))>> \o msg_rows(Tail(msgs))

\* A filter that also keeps the first only of the rows of a channel at the
\* same second.
dropna_first_of_second(rows) ==
    LET keep == {i \in 1..Len(rows) :
                    /\ rows[i].fecha_local # NaT
                    /\ \A j \in 1..(i - 1) :
                          ~(rows[j].channel_id = rows[i].channel_id
                            /\ rows[j].fecha_local = rows[i].fecha_local)}
        RECURSIVE pick(_)
        pick(i) == IF i > Len(rows) THEN <<>>
                   ELSE (IF i \in keep THEN <<rows[i]>> ELSE <<>>) \o pick(i + 1)
    IN  pick(1)

\* A filter that takes the first second of the day for a missing date too.
dropna_or_zero(rows) == SelectSeq(rows, LAMBDA r : r.fecha_local # NaT /\ r.fecha_local # 0)

\* dropna(subset=["fecha_utc"])
dropna(rows) == SelectSeq(rows, LAMBDA r : r.fecha_local # NaT)

ChannelFechaLessEq(a, b) ==
    \/ a.channel_id < b.channel_id
    \/ a.channel_id = b.channel_id /\ a.fecha_local <= b.fecha_local

\* Stable insertion of row r into the sorted rows s (r after its equals).
RECURSIVE InsertSorted(_, _)
InsertSorted(s, r) ==
    IF s = <<>> THEN <<r>>
    ELSE IF ChannelFechaLessEq(Head(s), r) THEN <<Head(s)>> \o InsertSorted(Tail(s), r)
    ELSE <<r>> \o s

\* df.sort_values(["channel_id","fecha_local"]): a stable sort.
RECURSIVE sort_values(_)
sort_values(rows) ==
    IF rows = <<>> THEN <<>>
    ELSE InsertSorted(sort_values(SubSeq(rows, 1, Len(rows) - 1)), rows[Len(rows)])

\* ---------------------------------------------------------- segmentation
\* The rows before row i that are of its channel.
rows_before(df, i) == {j \in 1..(i - 1) : df[j].channel_id = df[i].channel_id}

\* groupby("channel_id")["fecha_local"].diff(): the seconds since the row
\* before in the channel, NaT for the first row of a channel.
diff(df, i) ==
    IF rows_before(df, i) = {} THEN NaT
    ELSE df[i].fecha_local
         - df[CHOOSE j \in rows_before(df, i) : \A k \in rows_before(df, i) : k <= j].fecha_local

\* A comparison that also breaks at a gap equal to the threshold.
gt_or_equal(secs, inactivity_minutes) ==
    IF secs = NaT THEN FALSE
    ELSE FLessEq(FNat(inactivity_minutes), FDivNat(FNat(secs), SecPerMin))

\* .dt.total_seconds().div(60).gt(inactivity_minutes): float minutes compared
\* with the threshold; a NaN compares False.
gt(secs, inactivity_minutes) ==
    IF secs = NaT THEN FALSE
    ELSE ~FLessEq(FDivNat(FNat(secs), SecPerMin), FNat(inactivity_minutes))

\* Series.fillna: replaces the missing values only; a boolean is not missing.
fillna(v, fill) == IF v \in BOOLEAN THEN v ELSE fill

session_break(df, i, inactivity_minutes) ==
    fillna(gt(diff(df, i), inactivity_minutes), TRUE)

\* The column session_break of df.
session_breaks(df, inactivity_minutes) ==
    [i \in 1..Len(df) |-> session_break(df, i, inactivity_minutes)]

\* groupby("channel_id")["session_break"].cumsum().astype(int)
session_id(df, breaks, i) ==
    Cardinality({j \in 1..i : df[j].channel_id = df[i].channel_id /\ breaks[j]})

\* df with its columns session_break and session_id.
with_sessions(df, breaks) ==
    [i \in 1..Len(df) |->
        [ channel_id       |-> df[i].channel_id,
          canal            |-> df[i].canal,
          fecha_local      |-> df[i].fecha_local,
          autor_partner_id |-> df[i].autor_partner_id,
          autor            |-> df[i].autor,
          es_operador      |-> df[i].es_operador,
          session_break    |-> breaks[i],
          session_id       |-> session_id(df, breaks, i) ]]

SetMin(S) == CHOOSE x \in S : \A y \in S : x <= y
SetMax(S) == CHOOSE x \in S : \A y \in S : x >= y

\* A grouping by the session number alone.
group_rows_by_session_id(df, ch, sid) ==
    SelectSeq(df, LAMBDA r : r.session_id = sid)

\* The rows of one group of df.groupby(["canal","channel_id","session_id"]).
group_rows(df, ch, sid) ==
    SelectSeq(df, LAMBDA r : r.channel_id = ch /\ r.session_id = sid)

\* The local date of a timestamp (.dt.date), as a day number.
local_date(t) == t \div DaySecs + 1

\* grp.agg(...): the summary of one session.
session_agg(df, ch, sid) ==
    LET g  == group_rows(df, ch, sid)
        ts == {g[i].fecha_local : i \in 1..Len(g)}
    IN  [ canal      |-> g[1].canal,
          channel_id |-> ch,
          session_id |-> sid,
          inicio     |-> SetMin(ts),
          fin        |-> SetMax(ts),
          dur_min    |-> FDivNat(FNat(SetMax(ts) - SetMin(ts)), SecPerMin),
          msgs_total |-> Len(g),
          msgs_oper  |-> Len(SelectSeq(g, LAMBDA r : r.es_operador)),
          msgs_user  |-> Len(SelectSeq(g, LAMBDA r : ~r.es_operador)),
          date_local |-> local_date(SetMin(ts)) ]

\* Every session of df, before the filter.
sessions_agg(df) ==
    {session_agg(df, k[1], k[2]) :
        k \in {<<df[i].channel_id, df[i].session_id>> : i \in 1..Len(df)}}

\* sessions[(msgs_user > 0) & (msgs_oper > 0)]
sessions_filter(ss) == {s \in ss : s.msgs_user > 0 /\ s.msgs_oper > 0}

\* Order of the groups of groupby([channel_id, session_id, autor_partner_id, autor]).
OpsKeyLessEq(a, b) ==
    \/ a[1] < b[1]
    \/ a[1] = b[1] /\ a[2] < b[2]
    \/ a[1] = b[1] /\ a[2] = b[2] /\ a[3] <= b[3]

RECURSIVE SortKeys(_)
SortKeys(K) ==
    IF K = {} THEN <<>>
    ELSE LET k == CHOOSE x \in K : \A y \in K : OpsKeyLessEq(x, y)
         IN  <<k>> \o SortKeys(K \ {k})

\* df[df.es_operador == True].groupby([...]).agg(msgs_oper=("msg_id","count"))
ops_per_sess_agg(df) ==
    LET keys == SortKeys({<<df[i].channel_id, df[i].session_id, df[i].autor_partner_id>> :
                            i \in {j \in 1..Len(df) : df[j].es_operador}})
    IN  [n \in 1..Len(keys) |->
            [ channel_id       |-> keys[n][1],
              session_id       |-> keys[n][2],
              autor_partner_id |-> keys[n][3],
              autor            |-> autor_name(keys[n][3]),
              msgs_oper        |-> Len(SelectSeq(df, LAMBDA r :
                                        /\ r.es_operador
                                        /\ r.channel_id = keys[n][1]
                                        /\ r.session_id = keys[n][2]
                                        /\ r.autor_partner_id = keys[n][3])) ]]

\* The messages of the day as the sorted DataFrame with its session columns.
sorted_df(table, date_local) ==
    sort_values(dropna(msg_rows(fetch_messages(table, date_local))))

build_df(table, date_local, inactivity_minutes) ==
    with_sessions(sorted_df(table, date_local),
                  session_breaks(sorted_df(table, date_local), inactivity_minutes))

\* build_sessions_from_messages returns (sessions, ops_per_sess): both empty
\* when the day has no message with a valid date.
build_sessions(d) == IF d = <<>> THEN {} ELSE sessions_filter(sessions_agg(d))

\* An aggregation that keeps the first operator of every session only.
first_op_per_sess(d) ==
    IF d = <<>> THEN <<>>
    ELSE LET o == ops_per_sess_agg(d)
         IN  SelectSeq(o, LAMBDA r :
                 \A n \in 1..Len(o) :
                     (o[n].channel_id = r.channel_id /\ o[n].session_id = r.session_id)
                         => r.autor_partner_id <= o[n].autor_partner_id)

build_ops_per_sess(d) == IF d = <<>> THEN <<>> ELSE ops_per_sess_agg(d)

\* ---------------------------------------------------------- attribution
\* The row of sessions that a row of ops_per_sess merges with (how="left"):
\* the empty set when the session is not in sessions.
merge_match(ss, o) ==
    {x \in ss : x.channel_id = o.channel_id /\ x.session_id = o.session_id}

\* ops_per_sess.merge(sessions[...], how="left"), dur_min and date_local
\* filled where the merge found no session (fillna(0.0), fillna(default_date)).
merge_row(ss, o, default_date) ==
    IF merge_match(ss, o) = {}
    THEN [ channel_id |-> o.channel_id, session_id |-> o.session_id,
           autor_partner_id |-> o.autor_partner_id, autor |-> o.autor,
           msgs_oper |-> o.msgs_oper,
           canal |-> "nan", inicio |-> NaT, fin |-> NaT,
           dur_min |-> FZero, date_local |-> default_date ]
    ELSE LET x == CHOOSE y \in merge_match(ss, o) : TRUE
         IN  [ channel_id |-> o.channel_id, session_id |-> o.session_id,
               autor_partner_id |-> o.autor_partner_id, autor |-> o.autor,
               msgs_oper |-> o.msgs_oper,
               canal |-> x.canal, inicio |-> x.inicio, fin |-> x.fin,
               dur_min |-> x.dur_min, date_local |-> x.date_local ]

\* The rows of ops in the session of row i.
same_session(rows, i) ==
    {j \in 1..Len(rows) : /\ rows[j].channel_id = rows[i].channel_id
                           /\ rows[j].session_id = rows[i].session_id}

\* Series.replace(0, 1)
replace01(n) == IF n = 0 THEN 1 ELSE n

\* A total that counts the operators of the session, not their messages.
count_rows(rows, J) == Cardinality(J)

RECURSIVE SumMsgs(_, _)
SumMsgs(rows, J) ==
    IF J = {} THEN 0
    ELSE LET j == CHOOSE x \in J : TRUE IN rows[j].msgs_oper + SumMsgs(rows, J \ {j})

\* Weights that give every operator the whole session.
weight_full(rows, i, mode) == FNat(1)

\* Weights in which by_msgs divides by the number of operators.
weight_by_operators(rows, i, mode) ==
    IF mode = "full" THEN FNat(1)
    ELSE FDivNat(FNat(IF mode = "by_msgs" THEN rows[i].msgs_oper ELSE 1),
                 replace01(Cardinality({rows[j].autor_partner_id : j \in same_session(rows, i)})))

\* ops["weight"] under --modo.
weight(rows, i, mode) ==
    IF mode = "by_msgs"
    THEN FDivNat(FNat(rows[i].msgs_oper), replace01(SumMsgs(rows, same_session(rows, i))))
    ELSE IF mode = "full" THEN FNat(1)
    ELSE FDivNat(FNat(1),
                 replace01(Cardinality({rows[j].autor_partner_id : j \in same_session(rows, i)})))

\* The rows of ops: merge, weight, min_asignados, horas_asignadas.
attribution(ss, ops_ps, mode, default_date) ==
    LET rows == [i \in 1..Len(ops_ps) |-> merge_row(ss, ops_ps[i], default_date)]
    IN  [i \in 1..Len(rows) |->
            LET w == weight(rows, i, mode)
                m == FMul(rows[i].dur_min, w)
            IN  [ channel_id |-> rows[i].channel_id, session_id |-> rows[i].session_id,
                  autor_partner_id |-> rows[i].autor_partner_id, autor |-> rows[i].autor,
                  msgs_oper |-> rows[i].msgs_oper,
                  canal |-> rows[i].canal, inicio |-> rows[i].inicio, fin |-> rows[i].fin,
                  dur_min |-> rows[i].dur_min, date_local |-> rows[i].date_local,
                  weight |-> w,
                  min_asignados |-> m,
                  horas_asignadas |-> FDivNat(m, SecPerMin) ]]


\* ------------------------------------------------------ employees, names
\* build_employee_map: partner -> user (every internal user) and
\* user -> employee (the users that have an hr.employee).
partner_to_user == (1 :> 11) @@ (2 :> 12) @@ (3 :> 13)
user_to_employee == (11 :> 21) @@ (12 :> 22)

\* A lookup that falls back on the user when the user has no employee.
employee_or_user(partner_id) ==
    IF partner_id \notin DOMAIN partner_to_user THEN None
    ELSE IF partner_to_user[partner_id] \notin DOMAIN user_to_employee
    THEN partner_to_user[partner_id]
    ELSE user_to_employee[partner_to_user[partner_id]]

\* The employee of a partner, None when the partner has no user or the user
\* no employee.
employee_of(partner_id) ==
    IF partner_id \notin DOMAIN partner_to_user THEN None
    ELSE IF partner_to_user[partner_id] \notin DOMAIN user_to_employee THEN None
    ELSE user_to_employee[partner_to_user[partner_id]]

\* account.analytic.line has the field tag_ids.
has_tags == TRUE

\* Texts are sequences of pieces; a number is the piece of its digits.
\* f"WA[{channel_id}/{session_id}]@{partner_id}"
signature(r) ==
    <<"WA[", ToString(r.channel_id), "/", ToString(r.session_id), "]@",
      ToString(r.autor_partner_id)>>

\* f"[{signature}]"
name_marker(sig) == <<"[">> \o sig \o <<"]">>

\* %H, %M: two digits.
two_digits(n) == IF n < 10 THEN <<"0", ToString(n)>> ELSE <<ToString(n)>>

\* strftime("%H:%M") of a timestamp, the empty text for NaT (None).
fmt_hhmm(x) ==
    IF x = NaT THEN <<>>
    ELSE two_digits((x % DaySecs) \div (SecPerMin * SecPerMin)) \o <<":">>
         \o two_digits(((x % DaySecs) \div SecPerMin) % SecPerMin)

\* int(round(x)) of a float.
FRoundInt(x) ==
    IF x.m = <<>> THEN 0
    ELSE IF x.e >= 0 THEN BigToNat(BigShl(x.m, x.e))
    ELSE BigToNat(RoundHalfEven(x.m, 0 - x.e, FALSE))

time_span(r) ==
    IF fmt_hhmm(r.inicio) # <<>> /\ fmt_hhmm(r.fin) # <<>>
    THEN fmt_hhmm(r.inicio) \o <<"-">> \o fmt_hhmm(r.fin)
    ELSE <<ToString(FRoundInt(r.dur_min)), "m">>

\* f"WhatsApp {canal} ({time_span}) - {autor} [{signature}]"
line_name(r) ==
    <<"WhatsApp ", r.canal, " (">> \o time_span(r) \o <<") - ", r.autor, " ", "[">>
    \o signature(r) \o <<"]">>

\* f"{tag_prefix}{canal}".strip()
tag_name(r) == <<"Cliente: ", r.canal>>

line_vals(r, project_id) ==
    [ name        |-> line_name(r),
      date        |-> r.date_local,
      unit_amount |-> FHundredths(r.horas_asignadas),
      project_id  |-> project_id,
      employee_id |-> employee_of(r.autor_partner_id),
      tag         |-> IF has_tags THEN tag_name(r) ELSE <<>> ]

\* Lower case of a piece of text.
lower(t) ==
    CASE t = "WA[" -> "wa["
      [] t = "WhatsApp " -> "whatsapp "
      [] t = "Cliente: " -> "cliente: "
      [] t = "Acme" -> "acme"
      [] t = "Beta" -> "beta"
      [] t = "Ana" -> "ana"
      [] t = "Beto" -> "beto"
      [] t = "Caro" -> "caro"
      [] OTHER -> t

lower_text(s) == [i \in 1..Len(s) |-> lower(s[i])]

\* Odoo's ("name", "ilike", pattern): the pattern occurs in the name, case
\* ignored.
ilike(text, pattern) ==
    \E i \in 1..(Len(text) - Len(pattern) + 1) :
        SubSeq(lower_text(text), i, i + Len(pattern) - 1) = lower_text(pattern)

\* ------------------------------------------------------------ the ledger
\* A search on the name alone.
search_line_by_name(lines, vals, sig) ==
    LET found == {l \in lines : ilike(l.name, name_marker(sig))}
    IN  IF found = {} THEN {}
        ELSE {CHOOSE l \in found : \A k \in found : l.id <= k.id}

\* A search whose name condition is equality with the marker.
search_line_by_equal_name(lines, vals, sig) ==
    LET found == {l \in lines : /\ l.name = name_marker(sig)
                               /\ l.date = vals.date
                               /\ l.project_id = vals.project_id
                               /\ l.employee_id = vals.employee_id}
    IN  IF found = {} THEN {}
        ELSE {CHOOSE l \in found : \A k \in found : l.id <= k.id}

\* search("account.analytic.line", dom, limit=1), order id asc.
search_line(lines, vals, sig) ==
    LET found == {l \in lines : /\ ilike(l.name, name_marker(sig))
                               /\ l.date = vals.date
                               /\ l.project_id = vals.project_id
                               /\ l.employee_id = vals.employee_id}
    IN  IF found = {} THEN {}
        ELSE {CHOOSE l \in found : \A k \in found : l.id <= k.id}

\* The record that create() stores for vals under a new id.
new_line(vals, id) ==
    [ id |-> id, name |-> vals.name, date |-> vals.date, unit_amount |-> vals.unit_amount,
      project_id |-> vals.project_id, employee_id |-> vals.employee_id, tag |-> vals.tag ]

\* An upsert that under recreate creates without the unlink.
create_without_unlink(lines, vals, sig, recreate, id) ==
    LET existing == search_line(lines, vals, sig)
    IN  IF existing # {} /\ ~recreate
        THEN [lines |-> lines, created |-> FALSE, calls |-> <<>>]
        ELSE [ lines   |-> lines \cup {new_line(vals, id)},
               created |-> TRUE,
               calls   |-> <<[ model |-> "account.analytic.line", method |-> "create",
                               id |-> id ]>> ]

\* An upsert that leaves an existing line whatever recreate is.
create_ignoring_recreate(lines, vals, sig, recreate, id) ==
    LET existing == search_line(lines, vals, sig)
    IN  IF existing # {}
        THEN [lines |-> lines, created |-> FALSE, calls |-> <<>>]
        ELSE [ lines   |-> lines \cup {new_line(vals, id)},
               created |-> TRUE,
               calls   |-> <<[ model |-> "account.analytic.line", method |-> "create",
                               id |-> id ]>> ]

\* An upsert that replaces an existing line whatever recreate is.
create_replacing_always(lines, vals, sig, recreate, id) ==
    LET existing == search_line(lines, vals, sig)
    IN  [ lines   |-> (lines \ existing) \cup {new_line(vals, id)},
          created |-> TRUE,
          calls   |-> [i \in 1..Cardinality(existing) |->
                          [ model |-> "account.analytic.line", method |-> "unlink",
                            id |-> (CHOOSE l \in existing : TRUE).id ]]
                      \o <<[ model |-> "account.analytic.line", method |-> "create",
                             id |-> id ]>> ]

\* create_timesheet_if_needed: the lines afterwards, whether a line was
\* created, and the write calls made.
create_timesheet_if_needed(lines, vals, sig, recreate, id) ==
    LET existing == search_line(lines, vals, sig)
    IN  IF existing # {} /\ ~recreate
        THEN [lines |-> lines, created |-> FALSE, calls |-> <<>>]
        ELSE [ lines   |-> (lines \ existing) \cup {new_line(vals, id)},
               created |-> TRUE,
               calls   |-> [i \in 1..Cardinality(existing) |->
                               [ model |-> "account.analytic.line", method |-> "unlink",
                                 id |-> (CHOOSE l \in existing : TRUE).id ]]
                           \o <<[ model |-> "account.analytic.line", method |-> "create",
                                  id |-> id ]>> ]


\* ------------------------------------------------------------- the state
VARIABLES
    mail_message,           \* Odoo: the mail.message records
    aal,                    \* Odoo: the account.analytic.line records (the ledger)
    tags,                   \* Odoo: the names of the account.analytic.tag records
    next_id,                \* Odoo: the id the next created line gets
    projects,               \* Odoo: the project.project records
    project_id,             \* main: the project of the lines, None before it is resolved
    pc,                     \* main: "idle", "configured", "loop", "done", "aborted"; "built", "attributed"
    args,                   \* main: the parsed command line
    df,                     \* build_sessions_from_messages: the DataFrame of messages
    sessions,               \* the sessions with user and operator
    ops_per_sess,           \* the operators of each session
    ops,                    \* main: the rows the loop goes through
    idx,                    \* main: the row the loop is at
    preview_rows,           \* main: the rows of the preview CSV
    creados,                \* main: lines created
    ya_existian,            \* main: lines found and left
    omitidos_sin_empleado,  \* main: rows skipped, by operator name
    calls,                  \* the write calls the run has sent to Odoo, in order
    aal0,                   \* the ledger when the run started
    rerun,                  \* the run repeats the completed run before it
    fault                   \* the call whose failure ended the run, "" if none

\* control_timesheets_7h.py
VARIABLES
    USUARIOS,               \* the configured users: user_id and notify_email
    res_users,              \* Odoo: what the reads and searches return for each user id
    ctl_pc,                 \* main: "off", "idle", "loop", "done", "aborted"
    ctl_args,               \* main: the parsed command line
    u_idx,                  \* main: the user the loop is at
    mail_mail,              \* Odoo: the mail.mail records, in the order of their creation
    enviados                \* main: notices handled

\* importar_diarios_helpdesk.py
VARIABLES
    ir_model_fields,        \* Odoo: the names of the fields of helpdesk.ticket and of the lines
    res_partner,            \* Odoo: the ref of the partners, by id
    helpdesk_ticket,        \* Odoo: the helpdesk.ticket records
    timesheets,             \* Odoo: the account.analytic.line records of the tickets
    rows,                   \* process_diarios: the rows fetch_diarios returned
    imp_pc,                 \* process_diarios: "off", "idle", "loop", "done", "aborted"
    row_idx,                \* process_diarios: the row the loop is at
    ticket_timesheet_field, \* process_diarios: the field that links a line to its ticket
    procesados,             \* process_diarios: rows gone through
    imp_creados,            \* process_diarios: creados, the tickets created
    descartados,            \* process_diarios: rows discarded
    imp_calls,              \* the create calls of the run, in order
    tickets0                \* the tickets when the run started

\* exportar_whatsapp_odoo.py
VARIABLES
    df_s,               \* main: the messages with their sessions
    exp_sessions,       \* main: sessions, the sessions with a client and an operator
    tiempo_operador,    \* main: the column sesiones of the KPI, by operador
    exp_range,          \* main: the range of dates of the run
    exp_pc              \* main: "off", "idle", "done"

\* wa_sesiones_a_timesheets.py
wa_vars == <<mail_message, aal, tags, next_id, projects, project_id, pc, args, df, sessions, ops_per_sess, ops, idx,
             preview_rows, creados, ya_existian, omitidos_sin_empleado, calls, aal0, rerun, fault>>

ctl_vars == <<USUARIOS, res_users, ctl_pc, ctl_args, u_idx, mail_mail, enviados>>

imp_vars == <<ir_model_fields, res_partner, helpdesk_ticket, timesheets, rows, imp_pc, row_idx,
              ticket_timesheet_field, procesados, imp_creados, descartados, imp_calls, tickets0>>

exp_vars == <<df_s, exp_sessions, tiempo_operador, exp_range, exp_pc>>

\* The programs that an action of wa_sesiones_a_timesheets leaves alone.
other_programs == <<ctl_vars, imp_vars, exp_vars>>

vars == <<wa_vars, other_programs>>

\* ------------------------------------------------------------ the inputs
\* Largest number of mail.message records of a pipeline run's database.
MaxPipeMsgs == 3
\* Largest id a created line gets.
MaxId == 4
\* Largest number of messages of one operator in the drawn sessions.
MaxCount == 4

Msg(model, res_id, date, author_id) ==
    [model |-> model, res_id |-> res_id, date |-> date, author_id |-> author_id]

\* --fecha, --inactividad, --modo
Days == {1, 2}
Thresholds == {1, 2}
Modes == {"equal", "by_msgs", "full"}
\* The threshold of the pipeline's runs.
PipeThresholds == {1}
\* A --fecha that is not a date, as "2025-02-30" or "ayer".
BadFecha == 0
\* The project.project records before any run.
project_project == {[id |-> 1, name |-> "Soporte WhatsApp"]}

\* The sets of at most n elements of U.
RECURSIVE SubsetsUpTo(_, _)
SubsetsUpTo(U, n) ==
    IF n = 0 THEN {{}}
    ELSE LET P == SubsetsUpTo(U, n - 1)
         IN  P \cup {S \cup {x} : S \in P, x \in U}

\* Messages of the segmentation inputs: two channels, gaps of 59, 60, 61, 120,
\* 121 and 180 seconds, a client and an operator, a message of a second
\* operator, a message of the next day and one whose date does not parse.
SegMessages ==
    {Msg(channel_model, r, d, a) : r \in {1, 2}, d \in {0, 60, 121, 180}, a \in {9, 1}}
    \cup {Msg(channel_model, 1, 60, 2), Msg(channel_model, 1, DaySecs, 9),
          Msg(channel_model, 1, NaT, 9)}

\* Messages of the pipeline's database: one channel, a client, the operators
\* Ana and Beto and Caro (who has no employee), and a second day.
PipeMessages ==
    { Msg(channel_model, 1, 0, 9), Msg(channel_model, 1, 60, 1),
      Msg(channel_model, 1, 60, 2), Msg(channel_model, 1, 180, 2),
      Msg(channel_model, 1, 60, 3),
      Msg(channel_model, 1, DaySecs, 9), Msg(channel_model, 1, DaySecs + 60, 1) }

NoArgs ==
    [ fecha |-> 1, inactividad |-> 1, modo |-> "equal", proyecto_id |-> None, proyecto |-> "",
      crear_proyecto |-> FALSE, dry_run |-> TRUE, recrear |-> FALSE ]

\* The command lines of the pipeline's runs: a day, a policy, the project by
\* its id.
PipeArgs ==
    [ fecha : Days, inactividad : PipeThresholds, modo : Modes, proyecto_id : {1},
      proyecto : {""}, crear_proyecto : {FALSE}, dry_run : BOOLEAN, recrear : BOOLEAN ]

InitMain ==
    /\ aal = {}
    /\ tags = {}
    /\ next_id = 1
    /\ projects = project_project
    /\ project_id = None
    /\ pc = "idle"
    /\ args = NoArgs
    /\ df = <<>>
    /\ sessions = {}
    /\ ops_per_sess = <<>>
    /\ ops = <<>>
    /\ idx = 1
    /\ preview_rows = <<>>
    /\ creados = 0
    /\ ya_existian = 0
    /\ omitidos_sin_empleado = <<>>
    /\ calls = <<>>
    /\ aal0 = {}
    /\ rerun = FALSE
    /\ fault = ""

\* No other program is running.
CtlOff ==
    /\ USUARIOS = <<>>
    /\ res_users = <<>>
    /\ ctl_pc = "off"
    /\ ctl_args = <<>>
    /\ u_idx = 1
    /\ mail_mail = <<>>
    /\ enviados = 0

ImpOff ==
    /\ ir_model_fields = {}
    /\ res_partner = <<>>
    /\ helpdesk_ticket = {}
    /\ timesheets = {}
    /\ rows = <<>>
    /\ imp_pc = "off"
    /\ row_idx = 1
    /\ ticket_timesheet_field = ""
    /\ procesados = 0
    /\ imp_creados = 0
    /\ descartados = 0
    /\ imp_calls = <<>>
    /\ tickets0 = {}

ExpOff ==
    /\ df_s = <<>>
    /\ exp_sessions = {}
    /\ tiempo_operador = <<>>
    /\ exp_range = <<>>
    /\ exp_pc = "off"

InitOthers == CtlOff /\ ImpOff /\ ExpOff

InitRun == InitMain /\ InitOthers

Init ==
    /\ mail_message \in SubsetsUpTo(PipeMessages, MaxPipeMsgs)
    /\ InitRun

\* ------------------------------------------------------------------ main
\* find_project_by_id: the project, or RuntimeError (ok false).
find_project_by_id(table, id) ==
    [ ok |-> \E p \in table : p.id = id, project_id |-> id, table |-> table, calls |-> <<>> ]

\* find_project: the first project of the name; without one, RuntimeError or,
\* under crear, a new project.
find_project(table, name, crear) ==
    LET found == {p \in table : p.name = name}
        new   == 1 + SetMax({p.id : p \in table} \cup {0})
    IN  IF found # {}
        THEN [ ok |-> TRUE, project_id |-> SetMin({p.id : p \in found}), table |-> table,
               calls |-> <<>> ]
        ELSE IF ~crear
        THEN [ ok |-> FALSE, project_id |-> None, table |-> table, calls |-> <<>> ]
        ELSE [ ok |-> TRUE, project_id |-> new,
               table |-> table \cup {[id |-> new, name |-> name]},
               calls |-> <<[model |-> "project.project", method |-> "create", id |-> new]>> ]

\* main, "Proyecto": by --proyecto-id, else by --proyecto, else RuntimeError.
resolve_project(table, a) ==
    IF a.proyecto_id # None THEN find_project_by_id(table, a.proyecto_id)
    ELSE IF a.proyecto # "" THEN find_project(table, a.proyecto, a.crear_proyecto)
    ELSE [ ok |-> FALSE, project_id |-> None, table |-> table, calls |-> <<>> ]

\* to_local_day_bounds raises ValueError on a --fecha that is not a date.
day_parses(fecha) == fecha # BadFecha

\* The script is started with command line a: main up to the project.
StartRun(a) ==
    /\ pc = "idle"
    /\ args' = a
    /\ projects' = resolve_project(projects, a).table
    /\ project_id' = IF resolve_project(projects, a).ok
                     THEN resolve_project(projects, a).project_id ELSE None
    /\ calls' = resolve_project(projects, a).calls
    /\ pc' = IF resolve_project(projects, a).ok THEN "configured" ELSE "aborted"
    /\ fault' = IF resolve_project(projects, a).ok THEN "" ELSE "project"
    /\ aal0' = aal
    /\ rerun' = FALSE
    /\ UNCHANGED <<mail_message, aal, tags, next_id, df, sessions, ops_per_sess, ops, idx,
                   preview_rows, creados, ya_existian, omitidos_sin_empleado>>
    /\ UNCHANGED other_programs

\* The script is started again with the command line of the run that has
\* just ended without error: the project resolves as it did.
Rerun ==
    /\ pc = "done"
    /\ ~rerun
    /\ pc' = "configured"
    /\ rerun' = TRUE
    /\ calls' = <<>>
    /\ aal0' = aal
    /\ df' = <<>>
    /\ sessions' = {}
    /\ ops_per_sess' = <<>>
    /\ ops' = <<>>
    /\ idx' = 1
    /\ preview_rows' = <<>>
    /\ creados' = 0
    /\ ya_existian' = 0
    /\ omitidos_sin_empleado' = <<>>
    /\ UNCHANGED <<mail_message, aal, tags, next_id, projects, project_id, args, fault>>
    /\ UNCHANGED other_programs

\* main from build_sessions_from_messages to the loop: the sessions of the
\* day, the early return with an empty preview, the rows of ops.
Begin(fecha, inactividad, modo) ==
    /\ df' = build_df(mail_message, fecha, inactividad)
    /\ sessions' = build_sessions(df')
    /\ ops_per_sess' = build_ops_per_sess(df')
    /\ IF sessions' = {} \/ ops_per_sess' = <<>>
       THEN /\ ops' = <<>>
            /\ pc' = "done"
       ELSE /\ ops' = attribution(sessions', ops_per_sess', modo, fecha)
            /\ pc' = "loop"
    /\ args.dry_run \/ next_id + Len(ops') - 1 <= MaxId

\* build_sessions_from_messages and the rows of ops, every call answering;
\* a --fecha that is not a date ends the run in to_local_day_bounds.
BuildSessions ==
    /\ pc = "configured"
    /\ IF day_parses(args.fecha)
       THEN /\ Begin(args.fecha, args.inactividad, args.modo)
            /\ UNCHANGED fault
       ELSE /\ pc' = "aborted"
            /\ fault' = "fecha"
            /\ UNCHANGED <<df, sessions, ops_per_sess, ops>>
    /\ UNCHANGED <<mail_message, aal, tags, next_id, projects, project_id, args, idx,
                   preview_rows, creados, ya_existian, omitidos_sin_empleado, calls, aal0, rerun>>
    /\ UNCHANGED other_programs

\* The calls of build_sessions_from_messages that fetch from Odoo.
FetchCalls == {"channels", "messages search", "messages read"}

\* A fetch whose failure is caught: the run goes on with what was read.
BuildSessionsFaultCaught(call) ==
    /\ pc = "configured"
    /\ day_parses(args.fecha)
    /\ Begin(args.fecha, args.inactividad, args.modo)
    /\ fault' = call
    /\ UNCHANGED <<mail_message, aal, tags, next_id, projects, project_id, args, idx,
                   preview_rows, creados, ya_existian, omitidos_sin_empleado, calls, aal0, rerun>>
    /\ UNCHANGED other_programs

\* build_sessions_from_messages in which a fetch raises: nothing catches it,
\* main ends.
BuildSessionsFault(call) ==
    /\ pc = "configured"
    /\ day_parses(args.fecha)
    /\ pc' = "aborted"
    /\ fault' = call
    /\ UNCHANGED <<mail_message, aal, tags, next_id, projects, project_id, args, df, sessions,
                   ops_per_sess, ops, idx, preview_rows, creados, ya_existian,
                   omitidos_sin_empleado, calls, aal0, rerun>>
    /\ UNCHANGED other_programs

\* The process has ended: what it held in memory is gone.
Exit ==
    /\ pc \in {"done", "aborted"}
    /\ pc' = "idle"
    /\ args' = NoArgs
    /\ project_id' = None
    /\ df' = <<>>
    /\ sessions' = {}
    /\ ops_per_sess' = <<>>
    /\ ops' = <<>>
    /\ idx' = 1
    /\ preview_rows' = <<>>
    /\ creados' = 0
    /\ ya_existian' = 0
    /\ omitidos_sin_empleado' = <<>>
    /\ calls' = <<>>
    /\ aal0' = {}
    /\ rerun' = FALSE
    /\ fault' = ""
    /\ UNCHANGED <<mail_message, aal, tags, next_id, projects>>
    /\ UNCHANGED other_programs

\* A loop that writes in a dry run too.
writes_always(a) == TRUE

\* if not args.dry_run: the loop calls create_timesheet_if_needed.
writes_enabled(a) == ~a.dry_run

\* A count that forgets the skipped row.
count_nothing(d, k) == d

\* omitidos_sin_empleado[k] = omitidos_sin_empleado.get(k, 0) + 1
count_omitido(d, k) ==
    IF \E i \in 1..Len(d) : d[i].autor = k
    THEN [i \in 1..Len(d) |-> IF d[i].autor = k THEN [autor |-> k, n |-> d[i].n + 1] ELSE d[i]]
    ELSE Append(d, [autor |-> k, n |-> 1])

preview_row(r, vals) ==
    [ date |-> vals.date, canal |-> r.canal, operador |-> r.autor,
      horas |-> vals.unit_amount, minutos |-> FRoundInt(r.min_asignados),
      project_id |-> vals.project_id, employee_id |-> vals.employee_id,
      firma |-> signature(r), name |-> vals.name,
      tag |-> IF has_tags THEN tag_name(r) ELSE <<>> ]

\* find_or_create_tag through tag_cache: the tag is created when no tag has
\* the name.
tag_calls(r) ==
    IF has_tags /\ tag_name(r) \notin tags
    THEN <<[model |-> "account.analytic.tag", method |-> "create", id |-> 0]>>
    ELSE <<>>

tags_after(r) == IF has_tags THEN tags \cup {tag_name(r)} ELSE tags

\* One pass of the loop over ops, every call answering.
ProcessRow ==
    /\ pc = "loop"
    /\ idx <= Len(ops)
    /\ LET r    == ops[idx]
           vals == line_vals(r, project_id)
           up   == create_timesheet_if_needed(aal, vals, signature(r), args.recrear, next_id)
       IN  IF r.autor_partner_id = None
           THEN UNCHANGED <<aal, tags, next_id, preview_rows, creados, ya_existian,
                            omitidos_sin_empleado, calls>>
           ELSE IF employee_of(r.autor_partner_id) = None
           THEN /\ omitidos_sin_empleado' = count_omitido(omitidos_sin_empleado, r.autor)
                /\ UNCHANGED <<aal, tags, next_id, preview_rows, creados, ya_existian, calls>>
           ELSE /\ tags' = tags_after(r)
                /\ preview_rows' = Append(preview_rows, preview_row(r, vals))
                /\ UNCHANGED omitidos_sin_empleado
                /\ IF ~writes_enabled(args)
                   THEN /\ calls' = calls \o tag_calls(r)
                        /\ UNCHANGED <<aal, next_id, creados, ya_existian>>
                   ELSE /\ aal' = up.lines
                        /\ next_id' = IF up.created THEN next_id + 1 ELSE next_id
                        /\ creados' = IF up.created THEN creados + 1 ELSE creados
                        /\ ya_existian' = IF up.created THEN ya_existian ELSE ya_existian + 1
                        /\ calls' = calls \o tag_calls(r) \o up.calls
    /\ idx' = idx + 1
    /\ UNCHANGED <<mail_message, projects, project_id, pc, args, df, sessions, ops_per_sess, ops,
                   aal0, rerun, fault>>
    /\ UNCHANGED other_programs

\* One pass of the loop in which a call to account.analytic.line raises
\* (xmlrpc.client.Fault, a connection error): nothing catches it, main ends.
ProcessRowFault(call) ==
    /\ pc = "loop"
    /\ idx <= Len(ops)
    /\ writes_enabled(args)
    /\ LET r        == ops[idx]
           vals     == line_vals(r, project_id)
           existing == search_line(aal, vals, signature(r))
       IN  /\ r.autor_partner_id # None
           /\ employee_of(r.autor_partner_id) # None
           /\ call = "unlink" => existing # {} /\ args.recrear
           /\ call = "create" => existing = {} \/ args.recrear
           /\ tags' = tags_after(r)
           /\ preview_rows' = Append(preview_rows, preview_row(r, vals))
           /\ IF call = "create" /\ existing # {}
              THEN /\ aal' = aal \ existing
                   /\ calls' = calls \o tag_calls(r)
                                \o <<[ model |-> "account.analytic.line", method |-> "unlink",
                                       id |-> (CHOOSE l \in existing : TRUE).id ]>>
              ELSE /\ aal' = aal
                   /\ calls' = calls \o tag_calls(r)
    /\ pc' = "aborted"
    /\ fault' = call
    /\ UNCHANGED <<mail_message, next_id, projects, project_id, args, df, sessions, ops_per_sess,
                   ops, idx, creados,
                   ya_existian, omitidos_sin_empleado, aal0, rerun>>
    /\ UNCHANGED other_programs

\* After the loop: the preview CSV and the summary.
Finish ==
    /\ pc = "loop"
    /\ idx > Len(ops)
    /\ pc' = "done"
    /\ UNCHANGED <<mail_message, aal, tags, next_id, projects, project_id, args, df, sessions,
                   ops_per_sess, ops, idx,
                   preview_rows, creados, ya_existian, omitidos_sin_empleado, calls, aal0,
                   rerun, fault>>
    /\ UNCHANGED other_programs

Next ==
    \/ \E a \in PipeArgs : StartRun(a)
    \/ BuildSessions
    \/ Rerun
    \/ Exit
    \/ ProcessRow
    \/ \E call \in {"search", "unlink", "create"} : ProcessRowFault(call)
    \/ Finish

Spec == Init /\ [][Next]_vars


\* ----------------------------------------- segmentation as a function
\* build_sessions_from_messages applied to a drawn database.
SegBuild(fecha, inactividad) ==
    /\ pc = "idle"
    /\ df' = build_df(mail_message, fecha, inactividad)
    /\ sessions' = build_sessions(df')
    /\ ops_per_sess' = build_ops_per_sess(df')
    /\ args' = [args EXCEPT !.fecha = fecha, !.inactividad = inactividad]
    /\ pc' = "built"
    /\ UNCHANGED <<mail_message, aal, tags, next_id, projects, project_id, ops, idx, preview_rows,
                   creados,
                   ya_existian, omitidos_sin_empleado, calls, aal0, rerun, fault>>
    /\ UNCHANGED other_programs

InitSeg ==
    /\ mail_message \in SubsetsUpTo(SegMessages, MaxMsgs)
    /\ InitRun

NextSeg == \E fecha \in Days, inactividad \in Thresholds : SegBuild(fecha, inactividad)

SpecSeg == InitSeg /\ [][NextSeg]_vars

\* ------------------------------------------ attribution as a function
\* One conversation of channel 1: a message of the client, then c[p] messages
\* of each operator p, three seconds apart.
CountMessages(c) ==
    {Msg(channel_model, 1, 0, 9)}
    \cup UNION {{Msg(channel_model, 1, 3 * (k - 1) + p, p) : k \in 1..c[p]} : p \in 1..3}

\* The weights and the minutes of the rows of ops (main, after the merge).
Attribute(modo) ==
    /\ pc = "built"
    /\ ops' = attribution(sessions, ops_per_sess, modo, args.fecha)
    /\ args' = [args EXCEPT !.modo = modo]
    /\ pc' = "attributed"
    /\ UNCHANGED <<mail_message, aal, tags, next_id, projects, project_id, df, sessions,
                   ops_per_sess, idx,
                   preview_rows, creados, ya_existian, omitidos_sin_empleado, calls, aal0,
                   rerun, fault>>
    /\ UNCHANGED other_programs

InitAttr ==
    /\ mail_message \in {CountMessages(c) : c \in [1..3 -> 0..MaxCount]}
    /\ InitRun

NextAttr ==
    \/ \E inactividad \in Thresholds : SegBuild(1, inactividad)
    \/ \E modo \in Modes : Attribute(modo)

SpecAttr == InitAttr /\ [][NextAttr]_vars

\* ------------------------------------- the command line and the fetches
\* A database with one conversation of the first day, or with the client's
\* message alone.
CfgMessages ==
    { {Msg(channel_model, 1, 0, 9)},
      {Msg(channel_model, 1, 0, 9), Msg(channel_model, 1, 60, 1)} }

\* Command lines with and without project, by id and by name, with and
\* without --crear-proyecto, with a date and with a text that is no date.
CfgArgs ==
    [ fecha : {1, BadFecha}, inactividad : PipeThresholds, modo : {"equal"},
      proyecto_id : {None, 1, 2}, proyecto : {"", "Soporte WhatsApp", "Nuevo"},
      crear_proyecto : BOOLEAN, dry_run : BOOLEAN, recrear : {FALSE} ]

InitCfg ==
    /\ mail_message \in CfgMessages
    /\ InitRun

NextCfg ==
    \/ \E a \in CfgArgs : StartRun(a)
    \/ BuildSessions
    \/ \E call \in FetchCalls : BuildSessionsFault(call)
    \/ ProcessRow
    \/ Finish
    \/ Exit

SpecCfg == InitCfg /\ [][NextCfg]_vars

\* ----------------------------------------------- the upsert on a ledger
\* A run over a ledger that other runs and other users have written: lines
\* that carry a signature of the day's rows or of another operator, on either
\* day, project and employee.
UpsertMessages ==
    { Msg(channel_model, 1, 0, 9), Msg(channel_model, 1, 60, 1),
      Msg(channel_model, 1, DaySecs, 9), Msg(channel_model, 1, DaySecs + 60, 1) }

UpsertProjects == project_project \cup {[id |-> 2, name |-> "Interno"]}

\* What a line of the drawn ledger is matched on.
UpsertKeys == [sig : {1, 2}, date : Days, project_id : {1, 2}, employee_id : {21, 22}]

\* The line of key k under id.
KeyLine(k, id) ==
    [ id |-> id,
      name |-> <<"Carga ", "[", "WA[", "1", "/", "0", "]@", ToString(k.sig), "]">>,
      date |-> k.date, unit_amount |-> 0,
      project_id |-> k.project_id, employee_id |-> k.employee_id, tag |-> <<>> ]

\* The ledgers of at most two lines, with the ids 1 and 2.
UpsertLedgers ==
    {{}} \cup {{KeyLine(k, 1)} : k \in UpsertKeys}
         \cup {{KeyLine(kj[1], 1), KeyLine(kj[2], 2)} :
                    kj \in {p \in UpsertKeys \X UpsertKeys : p[1] # p[2]}}

UpsertArgs ==
    [ fecha : Days, inactividad : PipeThresholds, modo : {"equal"}, proyecto_id : {1, 2},
      proyecto : {""}, crear_proyecto : {FALSE}, dry_run : {FALSE}, recrear : BOOLEAN ]

InitUpsert ==
    /\ mail_message = UpsertMessages
    /\ aal \in UpsertLedgers
    /\ tags = {}
    /\ next_id = 3
    /\ projects = UpsertProjects
    /\ project_id = None
    /\ pc = "idle"
    /\ args = NoArgs
    /\ df = <<>>
    /\ sessions = {}
    /\ ops_per_sess = <<>>
    /\ ops = <<>>
    /\ idx = 1
    /\ preview_rows = <<>>
    /\ creados = 0
    /\ ya_existian = 0
    /\ omitidos_sin_empleado = <<>>
    /\ calls = <<>>
    /\ aal0 = {}
    /\ rerun = FALSE
    /\ fault = ""
    /\ InitOthers

NextUpsert ==
    \/ \E a \in UpsertArgs : StartRun(a)
    \/ BuildSessions
    \/ ProcessRow
    \/ Finish

SpecUpsert == InitUpsert /\ [][NextUpsert]_vars

\* ------------------------------------------------------ the worked example
\* One channel: the customer writes at 09:00 and 09:10, Ana answers at 09:15
\* and Beto writes at 10:20.
ExampleMessages ==
    { Msg(channel_model, 1, 9 * 3600, 9), Msg(channel_model, 1, 9 * 3600 + 600, 9),
      Msg(channel_model, 1, 9 * 3600 + 900, 1), Msg(channel_model, 1, 10 * 3600 + 1200, 2) }

ExampleArgs ==
    [ fecha : {1}, inactividad : {45, 90}, modo : Modes, proyecto_id : {1},
      proyecto : {""}, crear_proyecto : {FALSE}, dry_run : BOOLEAN, recrear : {FALSE} ]

InitExample ==
    /\ mail_message \in SUBSET ExampleMessages
    /\ InitRun

NextExample ==
    \/ \E a \in ExampleArgs : StartRun(a)
    \/ BuildSessions
    \/ ProcessRow
    \/ Finish

SpecExample == InitExample /\ [][NextExample]_vars

\* ------------------------------------------- segmentation in any order
\* The rows of the messages in the order the reads returned them, sorted and
\* cut into sessions.
segmentation(msgs, inactivity_minutes) ==
    with_sessions(sort_values(dropna(msg_rows(msgs))),
                  session_breaks(sort_values(dropna(msg_rows(msgs))), inactivity_minutes))

\* The orders in which a read can return the messages msgs.
Orders(msgs) ==
    {o \in [1..Len(msgs) -> {msgs[k] : k \in 1..Len(msgs)}] :
        \A i, j \in 1..Len(msgs) : i # j => o[i] # o[j]}

\* Two channels, two messages of one channel at the same second.
OrderMessages ==
    { Msg(channel_model, 1, 0, 9), Msg(channel_model, 1, 60, 1), Msg(channel_model, 1, 60, 2),
      Msg(channel_model, 1, 181, 2), Msg(channel_model, 2, 0, 9), Msg(channel_model, 2, 121, 1) }

SegBuildInOrder(o, inactividad) ==
    /\ pc = "idle"
    /\ df' = segmentation(o, inactividad)
    /\ sessions' = build_sessions(df')
    /\ ops_per_sess' = build_ops_per_sess(df')
    /\ args' = [args EXCEPT !.fecha = 1, !.inactividad = inactividad]
    /\ pc' = "built"
    /\ UNCHANGED <<mail_message, aal, tags, next_id, projects, project_id, ops, idx, preview_rows,
                   creados,
                   ya_existian, omitidos_sin_empleado, calls, aal0, rerun, fault>>
    /\ UNCHANGED other_programs

InitOrder ==
    /\ mail_message \in SubsetsUpTo(OrderMessages, MaxMsgs)
    /\ InitRun

NextOrder ==
    \E o \in Orders(fetch_messages(mail_message, 1)), inactividad \in Thresholds :
        SegBuildInOrder(o, inactividad)

SpecOrder == InitOrder /\ [][NextOrder]_vars

\* ------------------------------------------- the fallbacks of the search
\* Messages of the channels and of the records of another model that have
\* the ids of the channels.
OtherModelMessages ==
    { Msg(channel_model, 1, 0, 9), Msg(channel_model, 1, 60, 1),
      Msg(channel_model, 1, DaySecs, 9), Msg(channel_model, 3, 0, 9),
      Msg("helpdesk.ticket", 1, 30, 9), Msg("helpdesk.ticket", 1, 90, 1),
      Msg("helpdesk.ticket", 3, 0, 9) }

InitFetch ==
    /\ mail_message \in SUBSET OtherModelMessages
    /\ InitRun

SpecFetch == InitFetch /\ [][NextSeg]_vars

\* ------------------------------------------------ control_timesheets_7h.py
\* Hours are in hundredths, as horas_cargadas and horas_objetivo_calendar
\* round them; --min is given in hundredths too, so that the 1e-6 of the
\* comparison decides nothing.

\* The USUARIOS of the CONFIG section: two users, the second with or without
\* a notify_email.
UsuariosConfigs ==
    { << [user_id |-> 8, notify_email |-> "u8@example.com"],
         [user_id |-> 9, notify_email |-> e] >> : e \in {"u9@example.com", ""} }

\* What Odoo answers for a user id: the read of res.users returns the record,
\* returns nothing, or raises (the record is missing or may not be read); the
\* employee has no calendar (or there is no employee), a calendar without
\* attendance on the target day, or one with 8 hours, possibly under a
\* leave; the lines of the target date add up to horas.
OdooAnswers ==
    { w \in [ read : {"record", "empty", "fault"}, cal : {"none", "off", "on"},
              leave : BOOLEAN, horas : {0, 800} ] : w.leave => w.cal = "on" }

\* --fecha as the day of the week of the date (Wednesday, Saturday), --min,
\* --use-calendar, --dry-run.
CtlArgs == [weekday : {2, 5}, min : {0, 700}, use_calendar : BOOLEAN, dry_run : BOOLEAN]

\* get_user_and_employee: the user, a stand-in when the read raises, nothing
\* when the read returns nothing.
get_user_and_employee(w, user_id) ==
    IF w.read = "record" THEN [found |-> TRUE, id |-> user_id, name |-> <<"name">>]
    ELSE IF w.read = "fault"
    THEN [found |-> TRUE, id |-> user_id, name |-> <<"Usuario ", ToString(user_id)>>]
    ELSE [found |-> FALSE, id |-> user_id, name |-> <<>>]

es_habil_calendar(w, weekday) ==
    IF w.cal = "none" THEN weekday <= 4 ELSE w.cal = "on" /\ ~w.leave

horas_objetivo_calendar(w) == IF w.cal = "on" THEN 800 ELSE 0

\* habil, objetivo and horas of the loop of main, and its test
\* horas + 1e-6 < objetivo.
habil(w, a) == IF a.use_calendar THEN es_habil_calendar(w, a.weekday) ELSE a.weekday <= 4

objetivo(w, a) == IF a.use_calendar THEN horas_objetivo_calendar(w) ELSE a.min

incumple(w, a) == habil(w, a) /\ objetivo(w, a) > 0 /\ w.horas < objetivo(w, a)

\* enviar_email: the mail.mail records afterwards.
enviar_email(mails, to_email, dry_run) ==
    IF to_email = "" \/ dry_run THEN mails
    ELSE Append(mails, [email_to |-> to_email, state |-> "sent"])

CtlStart(a) ==
    /\ ctl_pc = "idle"
    /\ ctl_args' = a
    /\ u_idx' = 1
    /\ enviados' = 0
    /\ ctl_pc' = "loop"
    /\ UNCHANGED <<USUARIOS, res_users, mail_mail, wa_vars, imp_vars, exp_vars>>

\* One turn of the loop over USUARIOS.
CtlUser ==
    /\ ctl_pc = "loop"
    /\ u_idx <= Len(USUARIOS)
    /\ LET u == USUARIOS[u_idx]
           w == res_users[u.user_id]
       IN  IF get_user_and_employee(w, u.user_id).found /\ incumple(w, ctl_args)
           THEN /\ mail_mail' = enviar_email(mail_mail, u.notify_email, ctl_args.dry_run)
                /\ enviados' = enviados + 1
           ELSE UNCHANGED <<mail_mail, enviados>>
    /\ u_idx' = u_idx + 1
    /\ UNCHANGED <<USUARIOS, res_users, ctl_pc, ctl_args, wa_vars, imp_vars, exp_vars>>

\* A call of the turn raises: a search_read of the calendar or the search of
\* the lines, the create of the mail, or its send; the except of main ends
\* the run.
CtlUserFault(call) ==
    /\ ctl_pc = "loop"
    /\ u_idx <= Len(USUARIOS)
    /\ LET u == USUARIOS[u_idx]
           w == res_users[u.user_id]
           sends == /\ incumple(w, ctl_args)
                    /\ u.notify_email # ""
                    /\ ~ctl_args.dry_run
       IN  /\ get_user_and_employee(w, u.user_id).found
           /\ call = "search" =>
                 \/ ctl_args.use_calendar /\ w.cal # "none"
                 \/ habil(w, ctl_args) /\ objetivo(w, ctl_args) > 0
           /\ call \in {"create", "send"} => sends
           /\ mail_mail' = IF call = "send"
                           THEN Append(mail_mail, [email_to |-> u.notify_email,
                                                   state |-> "outgoing"])
                           ELSE mail_mail
    /\ ctl_pc' = "aborted"
    /\ UNCHANGED <<USUARIOS, res_users, ctl_args, u_idx, enviados, wa_vars, imp_vars, exp_vars>>

CtlFinish ==
    /\ ctl_pc = "loop"
    /\ u_idx > Len(USUARIOS)
    /\ ctl_pc' = "done"
    /\ UNCHANGED <<USUARIOS, res_users, ctl_args, u_idx, mail_mail, enviados, wa_vars, imp_vars, exp_vars>>

InitCtl ==
    /\ mail_message = {}
    /\ InitMain
    /\ ExpOff
    /\ ImpOff
    /\ USUARIOS \in UsuariosConfigs
    /\ res_users \in [{8, 9} -> OdooAnswers]
    /\ ctl_pc = "idle"
    /\ ctl_args = <<>>
    /\ u_idx = 1
    /\ mail_mail = <<>>
    /\ enviados = 0

NextCtl ==
    \/ \E a \in CtlArgs : CtlStart(a)
    \/ CtlUser
    \/ \E call \in {"search", "create", "send"} : CtlUserFault(call)
    \/ CtlFinish

SpecCtl == InitCtl /\ [][NextCtl]_vars

\* --------------------------------------------- importar_diarios_helpdesk.py
\* A Python value with its type: the keys of a dict compare by type and
\* value, and a str never equals an int.
PyNone == <<"NoneType", "">>

py_int(n) == <<"int", ToString(n)>>

py_str(s) == <<"str", s>>

\* The static dictionary IdTecnico -> user_id: its keys are the integers of
\* the source.
TECHNICIAN_USER_MAP ==
    (py_int(1) :> 2) @@ (py_int(4) :> 10) @@ (py_int(6) :> 9) @@ (py_int(9) :> 7)
    @@ (py_int(10) :> 11) @@ (py_int(15) :> 6) @@ (py_int(1000) :> 8)

\* CUSTOM_FIELD_NAME, without the environment variable.
CUSTOM_FIELD_NAME == "x_studio_iddiario"

\* str(int(value)) of a number, the stripped text otherwise; None for None
\* and for an empty text.
normalize_identifier(value) ==
    IF value = PyNone THEN PyNone
    ELSE IF value[1] = "int" THEN py_str(value[2])
    ELSE IF value[2] = "" THEN PyNone
    ELSE py_str(value[2])

\* The texts strptime reads with one of the four formats.
ParsedDates == {"2026-11-05 10:00:00", "05/11/2026"}

\* normalize_datetime of a text: None ("") when no format reads it.
normalize_datetime(value) == IF value \in ParsedDates THEN value ELSE ""

\* str(row.get("IDDiario") or "").strip()
diario_id_of(row) == IF row.IDDiario = None THEN "" ELSE ToString(row.IDDiario)

\* The partner whose ref is cuenta, None when there is none.
find_partner_id(partners, cuenta) ==
    IF cuenta = "" THEN None
    ELSE LET partner_ids == {p \in DOMAIN partners : partners[p] = cuenta}
         IN  IF partner_ids = {} THEN None
             ELSE CHOOSE p \in partner_ids : \A q \in partner_ids : p <= q

\* A ticket holds the diary id in the custom field.
ticket_exists(tickets, diario_id) ==
    /\ diario_id # ""
    /\ \E t \in tickets : t.x_studio_iddiario = diario_id

\* The first of the two candidate fields that account.analytic.line has,
\* None ("") when it has neither.
get_timesheet_ticket_field(fields) ==
    IF <<"account.analytic.line", "helpdesk_ticket_id">> \in fields THEN "helpdesk_ticket_id"
    ELSE IF <<"account.analytic.line", "ticket_id">> \in fields THEN "ticket_id"
    ELSE ""

\* The id Odoo gives the next ticket.
new_ticket_id(tickets) ==
    1 + (CHOOSE m \in {0} \cup {t.id : t \in tickets} :
            \A t \in tickets : t.id <= m)

\* What one turn of the loop leaves when nothing is created.
row_result(tickets, lines, d, desc, log, stop) ==
    [tickets |-> tickets, lines |-> lines, creados |-> 0, descartados |-> desc,
     calls |-> log, aborted |-> stop]

\* A turn that creates the line of every row with a diary id, whether or not
\* there is a ticket.
process_row_line_only(tickets, lines, field, partners, row, out) ==
    LET diario_id == diario_id_of(row)
    IN  IF diario_id = "" THEN row_result(tickets, lines, diario_id, 1, <<>>, FALSE)
        ELSE [tickets |-> tickets,
              lines |-> lines \cup {[diario_id |-> diario_id, ticket |-> None,
                                     link |-> field, minutos |-> row.MINUTOS,
                                     user_id |-> None]},
              creados |-> 0, descartados |-> 1,
              calls |-> <<[model |-> "account.analytic.line", diario_id |-> diario_id,
                           ok |-> TRUE]>>,
              aborted |-> FALSE]

\* A turn that creates a ticket and a line for every row with a diary id,
\* without the checks.
process_row_unchecked(tickets, lines, field, partners, row, out) ==
    LET diario_id == diario_id_of(row)
        ticket_id == new_ticket_id(tickets)
    IN  IF diario_id = "" THEN row_result(tickets, lines, diario_id, 1, <<>>, FALSE)
        ELSE [tickets |-> tickets \cup {[id |-> ticket_id, x_studio_iddiario |-> diario_id,
                                         partner_id |-> None, user_id |-> None]},
              lines |-> lines \cup {[diario_id |-> diario_id, ticket |-> ticket_id,
                                     link |-> field, minutos |-> row.MINUTOS,
                                     user_id |-> None]},
              creados |-> 1, descartados |-> 0,
              calls |-> <<[model |-> "helpdesk.ticket", diario_id |-> diario_id, ok |-> TRUE],
                          [model |-> "account.analytic.line", diario_id |-> diario_id,
                           ok |-> TRUE]>>,
              aborted |-> FALSE]

\* One turn of the loop of process_diarios over a row; out says which call
\* of the turn, if it is reached, raises: "search" (of the partner or of the
\* ticket), "ticket" (the create of the ticket) or "line" (the create of the
\* line).
process_row(tickets, lines, field, partners, row, out) ==
    LET diario_id == diario_id_of(row)
        minutos == row.MINUTOS
        fechainicio == normalize_datetime(row.FECHAINICIO)
        tecnico_raw == normalize_identifier(row.IdTecnico)
    IN  IF diario_id = "" THEN row_result(tickets, lines, diario_id, 1, <<>>, FALSE)
        ELSE IF tecnico_raw = PyNone \/ tecnico_raw \notin DOMAIN TECHNICIAN_USER_MAP
        THEN row_result(tickets, lines, diario_id, 1, <<>>, FALSE)
        ELSE IF out = "search" THEN row_result(tickets, lines, diario_id, 0, <<>>, TRUE)
        ELSE
        LET user_id == TECHNICIAN_USER_MAP[tecnico_raw]
            partner_id == find_partner_id(partners, row.CUENTA)
            ticket_id == new_ticket_id(tickets)
            ticket_call(ok) == [model |-> "helpdesk.ticket", diario_id |-> diario_id, ok |-> ok]
            line_call(ok) == [model |-> "account.analytic.line", diario_id |-> diario_id,
                              ok |-> ok]
            created == tickets \cup {[id |-> ticket_id, x_studio_iddiario |-> diario_id,
                                      partner_id |-> partner_id, user_id |-> user_id]}
        IN  IF partner_id = None THEN row_result(tickets, lines, diario_id, 1, <<>>, FALSE)
            ELSE IF ticket_exists(tickets, diario_id)
            THEN row_result(tickets, lines, diario_id, 0, <<>>, FALSE)
            ELSE IF out = "ticket"
            THEN row_result(tickets, lines, diario_id, 1, <<ticket_call(FALSE)>>, FALSE)
            ELSE IF field # "" /\ minutos > 0 /\ fechainicio # ""
            THEN [tickets |-> created,
                  lines |-> IF out = "line" THEN lines
                            ELSE lines \cup {[diario_id |-> diario_id, ticket |-> ticket_id,
                                              link |-> field, minutos |-> minutos,
                                              user_id |-> user_id]},
                  creados |-> 1, descartados |-> 0,
                  calls |-> <<ticket_call(TRUE), line_call(out # "line")>>,
                  aborted |-> FALSE]
            ELSE [tickets |-> created, lines |-> lines, creados |-> 1, descartados |-> 0,
                  calls |-> <<ticket_call(TRUE)>>, aborted |-> FALSE]

\* Rows of V_MV_Diarios: a diary of a listed technician (1), of a technician
\* that is not listed (99), without technician, without IDDiario, of an
\* account without partner, without minutes, with a date no format reads,
\* and with the technician as text.
DiarioRow(id, tecnico, cuenta, minutos, fecha) ==
    [IDDiario |-> id, IdTecnico |-> tecnico, CUENTA |-> cuenta, MINUTOS |-> minutos,
     FECHAINICIO |-> fecha]

V_MV_Diarios ==
    {DiarioRow(100, py_int(1), "C1", 30, "2026-11-05 10:00:00"),
     DiarioRow(100, py_int(1), "C1", 0, "2026-11-05 10:00:00"),
     DiarioRow(101, py_int(1), "C1", 30, "2026-11-05 10:00:00"),
     DiarioRow(101, py_int(4), "C2", 30, "05.11.2026"),
     DiarioRow(101, py_int(99), "C1", 30, "2026-11-05 10:00:00"),
     DiarioRow(101, PyNone, "C1", 0, "2026-11-05 10:00:00"),
     DiarioRow(101, py_int(1), "ZZ", 30, "2026-11-05 10:00:00"),
     DiarioRow(100, py_str("1"), "C1", 30, "2026-11-05 10:00:00"),
     DiarioRow(None, py_int(1), "C1", 30, "2026-11-05 10:00:00")}

\* What fetch_diarios returns: rows of the view, each IDDiario at most once.
Fetches ==
    {f \in UNION {[1..n -> V_MV_Diarios] : n \in 0..MaxRows} :
        \A i, j \in DOMAIN f : i # j => f[i].IDDiario # f[j].IDDiario}

\* The fields of the two models, as ir.model.fields lists them.
FieldConfigs ==
    {c \cup l : c \in {{}, {<<"helpdesk.ticket", CUSTOM_FIELD_NAME>>}},
                l \in {{}, {<<"account.analytic.line", "helpdesk_ticket_id">>},
                       {<<"account.analytic.line", "ticket_id">>}}}

\* The tickets Odoo holds before the first run: none, or the one of diary 100.
TicketConfigs ==
    {{}, {[id |-> 7, x_studio_iddiario |-> "100", partner_id |-> 5, user_id |-> 2]}}

\* process_diarios up to the loop: the custom field is there, the link field
\* is looked up, the rows are fetched.
ImpStart(f) ==
    /\ imp_pc = "idle"
    /\ <<"helpdesk.ticket", CUSTOM_FIELD_NAME>> \in ir_model_fields
    /\ ticket_timesheet_field' = get_timesheet_ticket_field(ir_model_fields)
    /\ rows' = f
    /\ row_idx' = 1
    /\ procesados' = 0
    /\ imp_creados' = 0
    /\ descartados' = 0
    /\ imp_calls' = <<>>
    /\ tickets0' = helpdesk_ticket
    /\ imp_pc' = "loop"
    /\ UNCHANGED <<ir_model_fields, res_partner, helpdesk_ticket, timesheets, wa_vars, ctl_vars, exp_vars>>

\* The custom field is missing (RuntimeError), or a connection or the fetch
\* fails: main logs the failure and the run ends before any row.
ImpStartFault ==
    /\ imp_pc = "idle"
    /\ imp_pc' = "aborted"
    /\ UNCHANGED <<ir_model_fields, res_partner, helpdesk_ticket, timesheets, rows, row_idx,
                   ticket_timesheet_field, procesados, imp_creados, descartados,
                   imp_calls, tickets0, wa_vars, ctl_vars, exp_vars>>

ImpRow(out) ==
    /\ imp_pc = "loop"
    /\ row_idx <= Len(rows)
    /\ LET r == process_row(helpdesk_ticket, timesheets, ticket_timesheet_field,
                            res_partner, rows[row_idx], out)
       IN  /\ helpdesk_ticket' = r.tickets
           /\ timesheets' = r.lines
           /\ imp_creados' = imp_creados + r.creados
           /\ descartados' = descartados + r.descartados
           /\ imp_calls' = imp_calls \o r.calls
           /\ imp_pc' = IF r.aborted THEN "aborted" ELSE "loop"
    /\ procesados' = procesados + 1
    /\ row_idx' = row_idx + 1
    /\ UNCHANGED <<ir_model_fields, res_partner, rows, ticket_timesheet_field, tickets0,
                   wa_vars, ctl_vars, exp_vars>>

\* The loop is over: the three counters are logged.
ImpFinish ==
    /\ imp_pc = "loop"
    /\ row_idx > Len(rows)
    /\ imp_pc' = "done"
    /\ UNCHANGED <<ir_model_fields, res_partner, helpdesk_ticket, timesheets, rows, row_idx,
                   ticket_timesheet_field, procesados, imp_creados, descartados,
                   imp_calls, tickets0, wa_vars, ctl_vars, exp_vars>>

\* The script is started again.
ImpAgain ==
    /\ imp_pc \in {"done", "aborted"}
    /\ imp_pc' = "idle"
    /\ UNCHANGED <<ir_model_fields, res_partner, helpdesk_ticket, timesheets, rows, row_idx,
                   ticket_timesheet_field, procesados, imp_creados, descartados,
                   imp_calls, tickets0, wa_vars, ctl_vars, exp_vars>>

InitImp ==
    /\ mail_message = {}
    /\ InitMain
    /\ ExpOff
    /\ CtlOff
    /\ ir_model_fields \in FieldConfigs
    /\ res_partner = (5 :> "C1") @@ (6 :> "C2")
    /\ helpdesk_ticket \in TicketConfigs
    /\ timesheets = {}
    /\ rows = <<>>
    /\ imp_pc = "idle"
    /\ row_idx = 1
    /\ ticket_timesheet_field = ""
    /\ procesados = 0
    /\ imp_creados = 0
    /\ descartados = 0
    /\ imp_calls = <<>>
    /\ tickets0 = {}

NextImp ==
    \/ \E f \in Fetches : ImpStart(f)
    \/ ImpStartFault
    \/ \E out \in {"none", "search", "ticket", "line"} : ImpRow(out)
    \/ ImpFinish
    \/ ImpAgain

SpecImp == InitImp /\ [][NextImp]_vars

\* ------------------------------------------------ exportar_whatsapp_odoo.py
\* The cut of a session, in minutes.
INACTIVITY_MINUTES == 45

\* The ranges of --desde and --hasta, in seconds: the first day, and the
\* first two days.
Ranges == {<<0, DaySecs - 1>>, <<0, 2 * DaySecs - 1>>}

\* search of mail.message with the model and the range, order="date asc",
\* then the messages of the WhatsApp channels.
exp_msgs(table, ini, fin) ==
    SelectSeq(search({m \in table : /\ m.model = channel_model
                                    /\ m.date # NaT
                                    /\ m.date >= ini
                                    /\ m.date <= fin}),
              LAMBDA m : m.res_id \in DOMAIN ch_map)

\* One row of rows_ms, with its fecha_ar.
exp_row(m) ==
    [ channel_id  |-> m.res_id,
      canal       |-> ch_map[m.res_id],
      fecha_ar    |-> m.date,
      autor       |-> autor_name(m.author_id),
      es_operador |-> (m.author_id # None /\ m.author_id \in internal_partner_ids) ]

\* Stable insertion of row r into the rows s sorted by channel and date.
RECURSIVE exp_insert(_, _)
exp_insert(s, r) ==
    IF s = <<>> THEN <<r>>
    ELSE IF \/ Head(s).channel_id < r.channel_id
            \/ Head(s).channel_id = r.channel_id /\ Head(s).fecha_ar <= r.fecha_ar
         THEN <<Head(s)>> \o exp_insert(Tail(s), r)
         ELSE <<r>> \o s

\* df_msgs.sort_values(["channel_id", "fecha_ar"])
RECURSIVE exp_sort_values(_)
exp_sort_values(msgs) ==
    IF msgs = <<>> THEN <<>>
    ELSE exp_insert(exp_sort_values(SubSeq(msgs, 1, Len(msgs) - 1)), exp_row(msgs[Len(msgs)]))

\* groupby("channel_id")["fecha_ar"].diff(): seconds since the row before
\* of the channel, NaT for the first.
exp_diff(d, i) ==
    LET before == {j \in 1..(i - 1) : d[j].channel_id = d[i].channel_id}
    IN  IF before = {} THEN NaT
        ELSE d[i].fecha_ar - d[CHOOSE j \in before : \A k \in before : k <= j].fecha_ar

\* A cut that also starts a session at the first message of a channel.
exp_session_break_first(d, i) ==
    IF exp_diff(d, i) = NaT THEN TRUE ELSE gt(exp_diff(d, i), INACTIVITY_MINUTES)

\* .dt.total_seconds().div(60).gt(INACTIVITY_MINUTES).fillna(True)
exp_session_break(d, i) == fillna(gt(exp_diff(d, i), INACTIVITY_MINUTES), TRUE)

\* groupby("channel_id")["session_break"].cumsum().astype(int)
exp_session_id(d, i) ==
    Cardinality({j \in 1..i : d[j].channel_id = d[i].channel_id /\ exp_session_break(d, j)})

\* df_s: the sorted rows with session_break and session_id.
exp_df_s(msgs) ==
    LET d == exp_sort_values(msgs)
    IN  [i \in 1..Len(d) |->
            [ channel_id    |-> d[i].channel_id,
              canal         |-> d[i].canal,
              fecha_ar      |-> d[i].fecha_ar,
              autor         |-> d[i].autor,
              es_operador   |-> d[i].es_operador,
              session_break |-> exp_session_break(d, i),
              session_id    |-> exp_session_id(d, i) ]]

\* df_s.groupby(["canal", "channel_id", "session_id"]).agg(...) and the
\* filter of the sessions with a client and an operator.
exp_sessions_of(d) ==
    LET agg(ch, sid) ==
            LET g  == SelectSeq(d, LAMBDA r : r.channel_id = ch /\ r.session_id = sid)
                ts == {g[i].fecha_ar : i \in 1..Len(g)}
                inicio == CHOOSE x \in ts : \A y \in ts : x <= y
                fin    == CHOOSE x \in ts : \A y \in ts : x >= y
            IN  [ canal        |-> g[1].canal,
                  channel_id   |-> ch,
                  session_id   |-> sid,
                  inicio       |-> inicio,
                  fin          |-> fin,
                  dur_min      |-> FDivNat(FNat(fin - inicio), SecPerMin),
                  msgs         |-> Len(g),
                  hay_usuario  |-> \E i \in 1..Len(g) : ~g[i].es_operador,
                  hay_operador |-> \E i \in 1..Len(g) : g[i].es_operador ]
    IN  {s \in {agg(d[i].channel_id, d[i].session_id) : i \in 1..Len(d)} :
            s.hay_usuario /\ s.hay_operador}

\* ops_per_sess merged with sessions (how="left"): the groups
\* (channel_id, session_id, autor) of the operators' rows of df_s, whether
\* or not their session is in sessions.
exp_ops(d) ==
    {<<d[i].channel_id, d[i].session_id, d[i].autor>> :
        i \in {j \in 1..Len(d) : d[j].es_operador}}

\* ops.groupby("autor").agg(sesiones=("session_id", "nunique")): the column
\* sesiones of tiempo_operador, by operador.
exp_tiempo_operador(d) ==
    [a \in {o[3] : o \in exp_ops(d)} |->
        Cardinality({o[2] : o \in {p \in exp_ops(d) : p[3] = a}})]

\* main, from the search of the messages to the KPI by operator.
ExpMain(ini, fin) ==
    /\ exp_pc = "idle"
    /\ df_s' = exp_df_s(exp_msgs(mail_message, ini, fin))
    /\ exp_sessions' = exp_sessions_of(df_s')
    /\ tiempo_operador' = exp_tiempo_operador(df_s')
    /\ exp_range' = <<ini, fin>>
    /\ exp_pc' = "done"
    /\ UNCHANGED <<wa_vars, ctl_vars, imp_vars>>

\* Messages of two channels with gaps of 45 minutes, of a second more and of
\* a minute, by a client and the operators Ana and Beto, and a message of
\* the second day.
ExpMessages ==
    {Msg(channel_model, r, d, a) : r \in {1, 2}, d \in {0, 2700, 5401}, a \in {9, 1}}
    \cup {Msg(channel_model, 1, 60, 2), Msg(channel_model, 2, 5401, 2),
          Msg(channel_model, 1, DaySecs, 9)}

InitExp ==
    /\ mail_message \in SubsetsUpTo(ExpMessages, MaxMsgs)
    /\ InitMain
    /\ CtlOff
    /\ ImpOff
    /\ df_s = <<>>
    /\ exp_sessions = {}
    /\ tiempo_operador = <<>>
    /\ exp_range = <<>>
    /\ exp_pc = "idle"

\* The two programs run over the same database.
NextExp ==
    \/ \E r \in Ranges : ExpMain(r[1], r[2])
    \/ \E fecha \in Days : SegBuild(fecha, INACTIVITY_MINUTES)

SpecExp == InitExp /\ [][NextExp]_vars

\* ------------------------------------------------------------- the output
\* print(f"[INFO] ... mensajes=... | sesiones=... | ops-sesion=..."): the line
\* build_sessions_from_messages prints when the day has messages.
info_line ==
    IF df = <<>> THEN <<>>
    ELSE [ mensajes |-> Len(df), sesiones |-> Cardinality(sessions),
           ops_sesion |-> Len(ops_per_sess) ]

\* The lines main prints when it ends: the empty preview, or the rows of the
\* preview and, without --dry-run, the counts.
summary ==
    IF sessions = {} \/ ops_per_sess = <<>> THEN [preview_vacio |-> TRUE]
    ELSE [filas |-> Len(preview_rows)]
         @@ (IF args.dry_run THEN <<>>
             ELSE [creados |-> creados, ya_existian |-> ya_existian]
                  @@ (IF omitidos_sin_empleado # <<>>
                      THEN [omitidos |-> omitidos_sin_empleado] ELSE <<>>))

\* ------------------------------------------------------------ properties
\* The calls of the run that insert into or delete from the ledger.
LedgerCalls == SelectSeq(calls, LAMBDA c : c.model = "account.analytic.line")

\* The lines of a ledger that carry the marker of row r, on its date, project
\* and employee.
LinesOf(lines, r) ==
    {l \in lines : /\ \E i \in 1..(Len(l.name) - Len(signature(r)) - 1) :
                        SubSeq(l.name, i, i + Len(signature(r)) + 1)
                            = <<"[">> \o signature(r) \o <<"]">>
                   /\ l.date = r.date_local
                   /\ l.project_id = project_id
                   /\ l.employee_id = employee_of(r.autor_partner_id)}

\* The rows of ops that the loop writes: the operator has an employee.
WrittenRows == {i \in 1..Len(ops) : employee_of(ops[i].autor_partner_id) # None}

\* C1: when a completed run without dry-run and without recreate is repeated
\* with the same command line on the same messages, the second run sends no
\* insert and no delete to the ledger, and the ledger stays as the first run
\* left it.
C1_Idempotence ==
    (pc \in {"loop", "done"} /\ rerun /\ ~args.dry_run /\ ~args.recrear)
        => (LedgerCalls = <<>> /\ aal = aal0 /\ creados = 0)

\* C1: a repeated run has ended after finding the two lines of the first run.
C1_Witness ==
    /\ pc = "done" /\ rerun /\ ~args.dry_run /\ ~args.recrear
    /\ ya_existian >= 2
    /\ \A i \in WrittenRows : LinesOf(aal, ops[i]) # {}

\* The signatures a line of the ledger can carry.
Signatures ==
    {<<"WA[", ToString(ch), "/", ToString(sid), "]@", ToString(p)>> :
        ch \in DOMAIN ch_map, sid \in 0..MaxPipeMsgs, p \in internal_partner_ids}

\* The signature in the name of a line.
SignatureOf(l) ==
    CHOOSE sig \in Signatures :
        \E i \in 1..(Len(l.name) - Len(sig) - 1) :
            SubSeq(l.name, i, i + Len(sig) + 1) = <<"[">> \o sig \o <<"]">>

\* C2: from an empty ledger, whatever runs have been made (with or without
\* recreate), the ledger holds at most one line per signature, date, project
\* and employee.
C2_LedgerUnique ==
    \A l1, l2 \in aal :
        (/\ SignatureOf(l1) = SignatureOf(l2)
         /\ l1.date = l2.date
         /\ l1.project_id = l2.project_id
         /\ l1.employee_id = l2.employee_id) => l1.id = l2.id

\* C2: a run with recreate has ended over a ledger that already held lines,
\* and the ledger holds two lines, one of them written by a later run.
C2_Witness ==
    /\ pc = "done" /\ ~args.dry_run /\ args.recrear
    /\ aal0 # {}
    /\ Cardinality(aal) >= 2
    /\ \E l \in aal : l.id >= 3

\* The session of a row has a message of a client and one of an operator.
Qualifies(r) ==
    /\ \E i \in 1..Len(df) : /\ df[i].channel_id = r.channel_id
                              /\ df[i].session_id = r.session_id
                              /\ df[i].es_operador
    /\ \E i \in 1..Len(df) : /\ df[i].channel_id = r.channel_id
                              /\ df[i].session_id = r.session_id
                              /\ ~df[i].es_operador

\* C3: in a run without dry-run, every attribution row, every preview row and
\* every line the run has inserted is of a session that has a message of a
\* client and a message of an operator.
C3_NonQualifyingDiscarded ==
    (pc \in {"loop", "done"} /\ ~args.dry_run) =>
        /\ \A i \in 1..Len(ops) : Qualifies(ops[i])
        /\ \A i \in 1..Len(preview_rows) :
              \E j \in 1..Len(ops) : Qualifies(ops[j]) /\ signature(ops[j]) = preview_rows[i].firma
        /\ \A l \in aal \ aal0 : \E i \in 1..Len(ops) : Qualifies(ops[i]) /\ l \in LinesOf(aal, ops[i])

\* C3: a run has inserted a line for a session made of one message of an
\* operator.
C3_OperatorOnlyLine ==
    /\ pc = "done" /\ ~args.dry_run
    /\ \E i \in 1..Len(ops) :
          /\ ~Qualifies(ops[i])
          /\ \E l \in aal \ aal0 : l \in LinesOf(aal, ops[i]) /\ l.unit_amount = 0

\* Every row the loop writes had a line in the ledger when the run started.
AllExisted == \A i \in WrittenRows : LinesOf(aal0, ops[i]) # {}

\* C4: when a run with recreate and without dry-run ends on a day whose rows
\* all had their line in the ledger, each line was deleted and then inserted
\* anew: the calls alternate unlink and create, the ledger holds as many lines
\* as before, and the line of every row has an id no line had before.
C4_RecreateReplaces ==
    (pc = "done" /\ ~args.dry_run /\ args.recrear /\ AllExisted) =>
        /\ Cardinality(aal) = Cardinality(aal0)
        /\ Len(LedgerCalls) = 2 * Cardinality(WrittenRows)
        /\ \A k \in 1..Len(LedgerCalls) :
              IF k % 2 = 1
              THEN /\ LedgerCalls[k].method = "unlink"
                   /\ LedgerCalls[k].id \in {l.id : l \in aal0}
              ELSE /\ LedgerCalls[k].method = "create"
                   /\ LedgerCalls[k].id \notin {l.id : l \in aal0}
        /\ \A i \in WrittenRows :
              /\ LinesOf(aal, ops[i]) # {}
              /\ \A l \in LinesOf(aal, ops[i]) : l.id \notin {x.id : x \in aal0}

\* C4: a run with recreate has replaced the two lines of the day.
C4_Witness ==
    /\ pc = "done" /\ ~args.dry_run /\ args.recrear /\ AllExisted
    /\ Cardinality(WrittenRows) >= 2
    /\ creados >= 2

\* C5: a failed insert or delete of a line does not end the run: the loop goes
\* on with the rows that remain.
C5_ContinueOnError ==
    fault \in {"create", "unlink"} => pc \in {"loop", "done"}

\* C5: the insert of the first of two rows failed and the run ended there,
\* the second row unprocessed.
C5_AbortedOnFault ==
    /\ pc = "aborted" /\ fault = "create"
    /\ idx = 1
    /\ Cardinality(WrittenRows) >= 2
    /\ aal = aal0

\* C10: a run with dry-run sends no insert and no delete to the ledger, with
\* or without recreate, and the ledger stays as it was when the run started.
C10_DryRunLedgerUnchanged ==
    (pc \in {"loop", "done"} /\ args.dry_run) => (LedgerCalls = <<>> /\ aal = aal0)

\* C10: a run with dry-run and recreate has ended with a preview row whose
\* line is in the ledger.
C10_Witness ==
    /\ pc = "done" /\ args.dry_run /\ args.recrear
    /\ Len(preview_rows) >= 1
    /\ \E i \in WrittenRows : LinesOf(aal, ops[i]) # {}

\* The row before row i in its channel, 0 when row i is the first.
PrevInChannel(i) ==
    LET P == {j \in 1..(i - 1) : df[j].channel_id = df[i].channel_id}
    IN  IF P = {} THEN 0 ELSE CHOOSE j \in P : \A k \in P : k <= j

\* Seconds between row i and the row before it in its channel.
GapSecs(i) == df[i].fecha_local - df[PrevInChannel(i)].fecha_local

\* C6: the rows of a channel are in time order, and a row after the first of
\* its channel starts a new session exactly when it comes more than the
\* threshold after the row before it; at a gap equal to the threshold it
\* stays in the session of the row before it.
C6_ThresholdBoundary ==
    pc = "built" =>
        \A i \in 1..Len(df) :
            PrevInChannel(i) # 0 =>
                /\ GapSecs(i) >= 0
                /\ df[i].session_break <=> (GapSecs(i) > args.inactividad * SecPerMin)
                /\ IF GapSecs(i) > args.inactividad * SecPerMin
                   THEN df[i].session_id = df[PrevInChannel(i)].session_id + 1
                   ELSE df[i].session_id = df[PrevInChannel(i)].session_id

\* C6: a channel with a message at the threshold after the one before it, in
\* the same session, and a message one second later than that, in a new one.
C6_Witness ==
    /\ pc = "built"
    /\ \E i, k \in 1..Len(df) :
          /\ PrevInChannel(i) # 0 /\ PrevInChannel(k) # 0
          /\ df[i].channel_id = df[k].channel_id
          /\ GapSecs(i) = args.inactividad * SecPerMin
          /\ df[i].session_id = df[PrevInChannel(i)].session_id
          /\ GapSecs(k) = args.inactividad * SecPerMin + 1
          /\ df[k].session_id = df[PrevInChannel(k)].session_id + 1

\* The rows up to row i that come more than the threshold after the row
\* before them in the channel of row i.
BreaksUpTo(i) ==
    {j \in 1..i : /\ df[j].channel_id = df[i].channel_id
                  /\ PrevInChannel(j) # 0
                  /\ GapSecs(j) > args.inactividad * SecPerMin}

\* The rows of ops_per_sess of the session that the first message of their
\* channel is in.
FirstSessionRows ==
    {n \in 1..Len(ops_per_sess) :
        \E i \in 1..Len(df) : /\ PrevInChannel(i) = 0
                              /\ df[i].channel_id = ops_per_sess[n].channel_id
                              /\ df[i].session_id = ops_per_sess[n].session_id}

\* C7: the first message of a channel has session number 1, every message
\* has 1 plus the number of breaks up to it in its channel, and the signature
\* of an operator of a channel's first session holds "/1]".
C7_OrdinalsStartAtOne ==
    pc = "built" =>
        /\ \A i \in 1..Len(df) : df[i].session_id = 1 + Cardinality(BreaksUpTo(i))
        /\ \A n \in FirstSessionRows :
              \E k \in 1..(Len(signature(ops_per_sess[n])) - 2) :
                  SubSeq(signature(ops_per_sess[n]), k, k + 2) = <<"/", "1", "]@">>

\* C7: the first message of a channel has session number 0 and the signature
\* of its operator holds "/0]".
C7_FirstSessionIsZero ==
    /\ pc = "built"
    /\ \E i \in 1..Len(df) : PrevInChannel(i) = 0 /\ df[i].session_id = 0
    /\ \E n \in FirstSessionRows :
          SubSeq(signature(ops_per_sess[n]), 3, 5) = <<"/", "0", "]@">>

\* The messages of the requested day that have a date.
ValidMessages ==
    {m \in mail_message : /\ m.date # NaT
                          /\ local_date(m.date) = args.fecha
                          /\ m.res_id \in DOMAIN ch_map}

RECURSIVE SumTotal(_)
SumTotal(S) ==
    IF S = {} THEN 0
    ELSE LET x == CHOOSE y \in S : TRUE IN x.msgs_total + SumTotal(S \ {x})

\* C8: every message of the day with a date is one row, every row is counted
\* in exactly one session of its channel (before the filter), the sessions
\* count no row twice, and the rows of a session are consecutive in the time
\* order of the channel.
C8_PartitionCompleteness ==
    pc = "built" =>
        /\ Len(df) = Cardinality(ValidMessages)
        /\ \A m \in ValidMessages :
              \E i \in 1..Len(df) : /\ df[i].channel_id = m.res_id
                                    /\ df[i].fecha_local = m.date
                                    /\ df[i].autor_partner_id = m.author_id
        /\ \A i \in 1..Len(df) :
              Cardinality({x \in sessions_agg(df) :
                              /\ x.channel_id = df[i].channel_id
                              /\ x.session_id = df[i].session_id
                              /\ x.inicio <= df[i].fecha_local
                              /\ df[i].fecha_local <= x.fin}) = 1
        /\ SumTotal(sessions_agg(df)) = Len(df)
        /\ \A i, j, k \in 1..Len(df) :
              (/\ df[i].channel_id = df[j].channel_id /\ df[j].channel_id = df[k].channel_id
               /\ i < j /\ j < k
               /\ df[i].session_id = df[k].session_id) =>
                  /\ df[j].session_id = df[i].session_id
                  /\ df[i].fecha_local <= df[j].fecha_local
                  /\ df[j].fecha_local <= df[k].fecha_local

\* C8: two channels, one of them with two sessions, four messages in all.
C8_Witness ==
    /\ pc = "built"
    /\ Len(df) = 4
    /\ Cardinality({df[i].channel_id : i \in 1..Len(df)}) = 2
    /\ Cardinality(sessions_agg(df)) = 3

\* The sum of the weights of the rows J of ops, added in the order of the rows.
RECURSIVE SumWeights(_)
SumWeights(J) ==
    IF J = {} THEN FZero
    ELSE LET j == CHOOSE x \in J : \A y \in J : y <= x
         IN  FAdd(SumWeights(J \ {j}), ops[j].weight)

\* The rows of the session of row i.
SessionRows(i) ==
    {j \in 1..Len(ops) : /\ ops[j].channel_id = ops[i].channel_id
                          /\ ops[j].session_id = ops[i].session_id}

\* The session of row i is one of sessions.
InSessions(i) ==
    \E x \in sessions : x.channel_id = ops[i].channel_id /\ x.session_id = ops[i].session_id

\* C9 as stated: in a session with client and operator, the weights of the
\* operators add up to exactly 1 under equal and under by_msgs, and each is
\* exactly 1 under full.
C9_ExactlyOne ==
    pc = "attributed" =>
        \A i \in 1..Len(ops) :
            InSessions(i) =>
                IF args.modo = "full" THEN ops[i].weight = FNat(1)
                ELSE SumWeights(SessionRows(i)) = FNat(1)

\* C9, amended: in a session with client and operator, under equal and under
\* by_msgs the weights of the n operators add up to 1 within the rounding of
\* the divisions and additions (n * 2^-53), and each is exactly 1 under full.
C9_WithinRounding ==
    pc = "attributed" =>
        \A i \in 1..Len(ops) :
            InSessions(i) =>
                IF args.modo = "full" THEN ops[i].weight = FNat(1)
                ELSE FCloseTo(SumWeights(SessionRows(i)), FNat(1),
                              Cardinality(SessionRows(i)), MantBits)

\* C9: three operators under by_msgs whose weights do not add up to 1.
C9_Witness ==
    /\ pc = "attributed"
    /\ args.modo = "by_msgs"
    /\ Len(ops) = 3
    /\ \A i \in 1..Len(ops) : InSessions(i)
    /\ SumWeights(SessionRows(1)) # FNat(1)

\* C11: a run with --dry-run sends no create, write or unlink to any model
\* of Odoo: no line, no tag, no project.
C11_DryRunCreatesNothing ==
    args.dry_run =>
        \A k \in 1..Len(calls) : calls[k].method \notin {"create", "write", "unlink"}

\* C11: a run with --dry-run has ended after creating a project and a tag.
C11_DryRunCreatedTagAndProject ==
    /\ pc = "done" /\ args.dry_run
    /\ \E k \in 1..Len(calls) :
          calls[k].model = "project.project" /\ calls[k].method = "create"
    /\ \E k \in 1..Len(calls) :
          calls[k].model = "account.analytic.tag" /\ calls[k].method = "create"
    /\ LedgerCalls = <<>>

\* The command line names no project, or its --fecha is not a date.
ConfigurationError ==
    \/ args.proyecto_id = None /\ args.proyecto = ""
    \/ ~day_parses(args.fecha)

\* C12: a run started without project or with a --fecha that is not a date
\* ends in error before it has fetched a message and before it has created
\* or deleted a project, a tag or a line.
C12_ConfigErrorsBeforeProcessing ==
    (pc # "idle" /\ ConfigurationError) =>
        /\ pc \in {"configured", "aborted"}
        /\ pc = "aborted" => fault \in {"project", "fecha"}
        /\ df = <<>> /\ sessions = {} /\ ops = <<>>
        /\ calls = <<>>
        /\ aal = aal0

\* C12: a run with a --fecha that is not a date has ended in error after
\* creating the project of --proyecto.
C12_ProjectCreatedBeforeDateError ==
    /\ pc = "aborted" /\ fault = "fecha"
    /\ \E k \in 1..Len(calls) :
          calls[k].model = "project.project" /\ calls[k].method = "create"
    /\ \E p \in projects : p.name = "Nuevo"

\* C19: when a fetch of channels or messages has failed, the run has ended
\* there: no message is in the DataFrame, no session and no row was built,
\* and no line was inserted or deleted.
C19_FetchFailureIsFatal ==
    fault \in FetchCalls =>
        /\ pc = "aborted"
        /\ df = <<>> /\ sessions = {} /\ ops_per_sess = <<>> /\ ops = <<>>
        /\ preview_rows = <<>>
        /\ LedgerCalls = <<>>
        /\ aal = aal0

\* C19: the read of the messages failed in a run without dry-run on a day
\* that has a conversation.
C19_Witness ==
    /\ pc = "aborted" /\ fault = "messages read"
    /\ ~args.dry_run
    /\ \E m, n \in mail_message :
          /\ InDay(m, args.fecha) /\ InDay(n, args.fecha)
          /\ m.author_id \in internal_partner_ids /\ n.author_id \notin internal_partner_ids

\* The partner has a user and the user an employee.
HasEmployee(p) ==
    /\ p \in DOMAIN partner_to_user
    /\ partner_to_user[p] \in DOMAIN user_to_employee

\* The rows the loop has passed whose operator has no employee.
SkippedRows == {i \in 1..(idx - 1) : ~HasEmployee(ops[i].autor_partner_id)}

RECURSIVE SumOmitidos(_)
SumOmitidos(d) == IF d = <<>> THEN 0 ELSE Head(d).n + SumOmitidos(Tail(d))

\* C13: for every row the loop has passed whose operator has no employee
\* there is no preview row and no line, the count of the skipped rows has
\* gone up by one, and the loop has gone on: every other row it has passed
\* has its preview row.
C13_MissingEmployeeSkipped ==
    pc \in {"loop", "done"} =>
        /\ SumOmitidos(omitidos_sin_empleado) = Cardinality(SkippedRows)
        /\ \A i \in SkippedRows :
              /\ \A k \in 1..Len(preview_rows) : preview_rows[k].firma # signature(ops[i])
              /\ \A l \in aal : SignatureOf(l) # signature(ops[i])
        /\ \A i \in 1..(idx - 1) :
              i \notin SkippedRows =>
                  \E k \in 1..Len(preview_rows) : preview_rows[k].firma = signature(ops[i])
        /\ pc = "done" => idx = Len(ops) + 1

\* C13: a run without dry-run has ended; it skipped an operator without
\* employee and inserted the line of a row after that one.
C13_Witness ==
    /\ pc = "done" /\ ~args.dry_run
    /\ \E i \in SkippedRows : \E j \in (i + 1)..Len(ops) :
          /\ j \notin SkippedRows
          /\ LinesOf(aal \ aal0, ops[j]) # {}

\* The lines of a ledger whose name carries the signature of row r.
SameSignature(lines, r) == {l \in lines : SignatureOf(l) = signature(r)}

\* C14: a line counts as the existing one of a row only when it carries the
\* row's signature on the row's date, project and employee: every other line
\* stays in the ledger, with or without recreate, and does not keep the
\* row's line from being inserted; a line that does match keeps it from
\* being inserted when recreate is off.
C14_CompositeMatch ==
    (pc = "done" /\ ~args.dry_run) =>
        /\ \A l \in aal0 : (\A i \in WrittenRows : l \notin LinesOf(aal0, ops[i])) => l \in aal
        /\ \A i \in WrittenRows :
              IF LinesOf(aal0, ops[i]) = {}
              THEN \E l \in aal \ aal0 : l \in LinesOf(aal, ops[i])
              ELSE ~args.recrear => LinesOf(aal, ops[i]) = LinesOf(aal0, ops[i])

\* C14: a run with recreate has ended over a ledger of two lines that carry
\* the row's signature, one on another project and one on another employee;
\* both are still there and the row's line has been inserted.
C14_Witness ==
    /\ pc = "done" /\ ~args.dry_run /\ args.recrear
    /\ \E i \in WrittenRows :
          /\ Cardinality(SameSignature(aal0, ops[i])) = 2
          /\ \E l \in SameSignature(aal0, ops[i]) :
                l.project_id # project_id /\ l.date = ops[i].date_local
          /\ \E l \in SameSignature(aal0, ops[i]) :
                l.employee_id # employee_of(ops[i].autor_partner_id) /\ l.project_id = project_id
          /\ aal0 \subseteq aal
          /\ Cardinality(aal) = 3

\* The positions of the fetched messages of session sid of channel ch.
MessagesOf(ch, sid) ==
    {i \in 1..Len(df) : df[i].channel_id = ch /\ df[i].session_id = sid}

\* The (session, responder) pair of the operator message at position i, with
\* the date of the session's first message.
PairOf(i) ==
    [ channel_id       |-> df[i].channel_id,
      session_id       |-> df[i].session_id,
      autor_partner_id |-> df[i].autor_partner_id,
      date_local       |-> local_date(SetMin({df[j].fecha_local :
                                j \in MessagesOf(df[i].channel_id, df[i].session_id)})) ]

\* The operator messages of sessions with a customer message whose author
\* has an employee.
ResolvablePairs ==
    {i \in 1..Len(df) : /\ df[i].es_operador
                        /\ \E j \in MessagesOf(df[i].channel_id, df[i].session_id) :
                              ~df[j].es_operador
                        /\ HasEmployee(df[i].autor_partner_id)}

\* C15: when a run that writes has ended without a fault, every responder
\* with an employee who wrote in a session that has a customer message has a
\* line in the ledger carrying WA[channel/session]@responder on the
\* session's date, the run's project and the responder's employee.
C15_MaterializationComplete ==
    (pc = "done" /\ ~args.dry_run /\ fault = "") =>
        \A i \in ResolvablePairs : LinesOf(aal, PairOf(i)) # {}

\* C15: a run that writes has ended over a session answered by two
\* responders with an employee, and each has a line the run inserted.
C15_Witness ==
    /\ pc = "done" /\ ~args.dry_run /\ fault = ""
    /\ \E i \in ResolvablePairs, j \in ResolvablePairs :
          /\ df[i].channel_id = df[j].channel_id
          /\ df[i].session_id = df[j].session_id
          /\ df[i].autor_partner_id # df[j].autor_partner_id
          /\ LinesOf(aal \ aal0, PairOf(i)) # {}
          /\ LinesOf(aal \ aal0, PairOf(j)) # {}

\* The amount the run in progress computes for row r.
AmountOf(r) == FHundredths(r.horas_asignadas)

\* C16 as stated: when a run that writes has ended, the lines of its rows
\* hold the amounts of that run's policy, whatever an earlier run under
\* another policy left in the ledger.
C16_LastWriteWins ==
    (pc = "done" /\ ~args.dry_run /\ fault = "") =>
        \A i \in WrittenRows :
            \A l \in LinesOf(aal, ops[i]) : l.unit_amount = AmountOf(ops[i])

\* C16: when a run that writes has ended, the lines of its rows hold the
\* amounts of that run's policy if the run had recreate or the row had no
\* line when it started; a line that an earlier run left is otherwise kept
\* as it was, with the amount of the earlier run's policy.
C16_RecreateDecidesPrecedence ==
    (pc = "done" /\ ~args.dry_run /\ fault = "") =>
        \A i \in WrittenRows :
            IF args.recrear \/ LinesOf(aal0, ops[i]) = {}
            THEN /\ LinesOf(aal, ops[i]) # {}
                 /\ \A l \in LinesOf(aal, ops[i]) : l.unit_amount = AmountOf(ops[i])
            ELSE LinesOf(aal, ops[i]) = LinesOf(aal0, ops[i])

\* C16: a run without recreate has ended on a day whose row already had a
\* line with the amount of another policy, and the line is still there.
C16_Witness ==
    /\ pc = "done" /\ ~args.dry_run /\ ~args.recrear /\ fault = ""
    /\ \E i \in WrittenRows :
          \E l \in LinesOf(aal0, ops[i]) :
              /\ l.unit_amount # AmountOf(ops[i])
              /\ l \in aal

\* The run is over the whole example, with 45 minutes and the equal policy.
ExampleRun ==
    /\ pc \in {"loop", "done"}
    /\ mail_message = ExampleMessages
    /\ args.inactividad = 45
    /\ args.modo = "equal"

\* The example's segmentation: two sessions, of which the one from 09:00 to
\* 09:15 alone has both roles.
ExampleSessions ==
    /\ Cardinality({df[i].session_id : i \in 1..Len(df)}) = 2
    /\ Cardinality(sessions) = 1
    /\ \A s \in sessions : s.inicio = 9 * 3600 /\ s.fin = 9 * 3600 + 900

\* Ana's row of the example: weight 1 and the session's 15 minutes.
ExampleRowOfA(r) ==
    /\ r.autor_partner_id = 1
    /\ r.weight = FNat(1)
    /\ r.min_asignados = FNat(15)

\* C17 as stated: the example gives two sessions of which only the first
\* qualifies, and exactly one attribution row, Ana's with weight 1 and 15
\* minutes; there is no row for Beto.
C17_WorkedExample ==
    ExampleRun =>
        /\ ExampleSessions
        /\ Len(ops) = 1
        /\ ExampleRowOfA(ops[1])
        /\ \A i \in 1..Len(ops) : ops[i].autor_partner_id # 2

\* C17: a run that writes has ended on the example with the sessions and
\* Ana's row as stated, and with a second row and a ledger line of 0 hours
\* for Beto, whose session has no customer message.
C17_ResponderBRecord ==
    /\ ExampleRun /\ pc = "done" /\ ~args.dry_run
    /\ ExampleSessions
    /\ Len(ops) = 2
    /\ ExampleRowOfA(ops[1])
    /\ ops[2].autor_partner_id = 2
    /\ ops[2].min_asignados = FZero
    /\ \E l \in LinesOf(aal, ops[2]) : l.unit_amount = 0

\* The operator messages of the session of row i of ops, and those of them
\* that the row's operator wrote.
OperatorMessages(i) ==
    {k \in 1..Len(df) : /\ df[k].es_operador
                        /\ df[k].channel_id = ops[i].channel_id
                        /\ df[k].session_id = ops[i].session_id}

OwnMessages(i) ==
    {k \in OperatorMessages(i) : df[k].autor_partner_id = ops[i].autor_partner_id}

\* C18: under by_msgs the weight of every row is the number of messages of
\* its operator in the session divided by the number of operator messages
\* of the session, a total of 0 counting as 1; every row has a message of
\* its own, so the total is never 0.
C18_ByMsgsWeight ==
    (pc = "attributed" /\ args.modo = "by_msgs") =>
        \A i \in 1..Len(ops) :
            /\ Cardinality(OwnMessages(i)) >= 1
            /\ ops[i].weight =
                  FDivNat(FNat(Cardinality(OwnMessages(i))),
                          IF Cardinality(OperatorMessages(i)) = 0 THEN 1
                          ELSE Cardinality(OperatorMessages(i)))

\* C18: two operators with 3 and 1 messages in a session have the weights
\* 3/4 and 1/4 under by_msgs.
C18_Witness ==
    /\ pc = "attributed" /\ args.modo = "by_msgs"
    /\ Len(ops) = 2
    /\ Cardinality(OwnMessages(1)) = 3 /\ Cardinality(OwnMessages(2)) = 1
    /\ FMul(ops[1].weight, FNat(4)) = FNat(3)
    /\ FMul(ops[2].weight, FNat(4)) = FNat(1)

\* The messages the fetch of the run's day returns, as a set.
Fetched ==
    {fetch_messages(mail_message, args.fecha)[k] :
        k \in 1..Len(fetch_messages(mail_message, args.fecha))}

\* The rows of df that come from message m.
RowsOf(m) ==
    {i \in 1..Len(df) : /\ df[i].channel_id = m.res_id
                        /\ df[i].fecha_local = m.date
                        /\ df[i].autor_partner_id = m.author_id}

FoundRows == {i \in WrittenRows : LinesOf(aal0, ops[i]) # {}}

\* The inserts into the ledger among the calls of the run.
Inserts == SelectSeq(LedgerCalls, LAMBDA c : c.method = "create")

Assignment(d) ==
    {<<d[i].channel_id, d[i].fecha_local, d[i].autor_partner_id, d[i].session_id>> :
        i \in 1..Len(d)}

\* C22: whatever the order in which the messages of the day were returned,
\* the segmentation gives every message the channel and the session number
\* that it gives them in the order of the search, and so the same in any two
\* executions on the same messages and threshold.
C22_SegmentationDeterminism ==
    pc = "built" =>
        /\ Assignment(df) = Assignment(build_df(mail_message, args.fecha, args.inactividad))
        /\ sessions = build_sessions(build_df(mail_message, args.fecha, args.inactividad))

\* C22: the messages came in an order that leaves the rows in another order
\* than the search's, with two messages at the same second and a channel of
\* two sessions.
C22_Witness ==
    /\ pc = "built"
    /\ df # build_df(mail_message, args.fecha, args.inactividad)
    /\ \E i, j \in 1..Len(df) :
          /\ i # j /\ df[i].channel_id = df[j].channel_id
          /\ df[i].fecha_local = df[j].fecha_local
    /\ \E i, j \in 1..Len(df) :
          df[i].channel_id = df[j].channel_id /\ df[i].session_id # df[j].session_id

\* The lowest exponent among the minutes of the rows J and the duration d.
LowExp(J, d) == SetMin({ops[j].min_asignados.e : j \in J} \cup {d.e})

\* The sum of the minutes of the rows J, without rounding, in units of 2^lo.
RECURSIVE ExactMinutes(_, _)
ExactMinutes(J, lo) ==
    IF J = {} THEN <<>>
    ELSE LET j == CHOOSE x \in J : TRUE
         IN  BigAdd(FAlign(ops[j].min_asignados, lo), ExactMinutes(J \ {j}, lo))

\* The minutes of row i are between 0 and the duration of its session.
MinutesInRange(i) ==
    /\ FLessEq(FZero, ops[i].min_asignados)
    /\ FLessEq(ops[i].min_asignados, ops[i].dur_min)

\* C29 as stated: under equal and by_msgs the minutes of the operators of a
\* session with client and operator add up to exactly the duration of the
\* session, and each is between 0 and the duration.
C29_ExactConservation ==
    (pc = "attributed" /\ args.modo \in {"equal", "by_msgs"}) =>
        \A i \in 1..Len(ops) :
            InSessions(i) =>
                /\ MinutesInRange(i)
                /\ ExactMinutes(SessionRows(i), LowExp(SessionRows(i), ops[i].dur_min))
                       = FAlign(ops[i].dur_min, LowExp(SessionRows(i), ops[i].dur_min))

\* C29, amended: under equal and by_msgs the minutes of the operators of a
\* session with client and operator add up to the duration of the session
\* within the rounding of the division and the product (3 * 2^-53 of the
\* duration), and each is between 0 and the duration.
C29_ConservationWithinRounding ==
    (pc = "attributed" /\ args.modo \in {"equal", "by_msgs"}) =>
        \A i \in 1..Len(ops) :
            InSessions(i) =>
                LET lo == LowExp(SessionRows(i), ops[i].dur_min)
                    s  == BigShl(ExactMinutes(SessionRows(i), lo), MantBits)
                    d  == BigShl(FAlign(ops[i].dur_min, lo), MantBits)
                    t  == BigMulSmall(FAlign(ops[i].dur_min, lo), 3)
                IN  /\ MinutesInRange(i)
                    /\ BigCmp(s, BigAdd(d, t)) <= 0
                    /\ BigCmp(d, BigAdd(s, t)) <= 0

\* C29: three operators of a session whose minutes do not add up to the
\* duration of the session.
C29_Witness ==
    /\ pc = "attributed"
    /\ args.modo \in {"equal", "by_msgs"}
    /\ Len(ops) = 3
    /\ \A i \in 1..Len(ops) : InSessions(i)
    /\ ExactMinutes(SessionRows(1), LowExp(SessionRows(1), ops[1].dur_min))
           # FAlign(ops[1].dur_min, LowExp(SessionRows(1), ops[1].dur_min))

\* The messages of the channel model, of a WhatsApp channel, within the day
\* of the run.
ChannelMessagesOfDay ==
    {m \in mail_message : /\ m.model = channel_model
                          /\ m.res_id \in DOMAIN ch_map
                          /\ m.date # NaT
                          /\ to_local_day_bounds(args.fecha)[1] <= m.date
                          /\ m.date <= to_local_day_bounds(args.fecha)[2]}

\* C30 as stated: every row of df comes from a message of the channel model
\* whose res_id is a WhatsApp channel and whose date is within the bounds of
\* the day.
C30_OnlyChannelMessages ==
    pc = "built" =>
        \A i \in 1..Len(df) :
            \E m \in ChannelMessagesOfDay : /\ m.res_id = df[i].channel_id
                                            /\ m.date = df[i].fecha_local
                                            /\ m.author_id = df[i].autor_partner_id

\* C30: the channels have no message on the day, the search without the
\* model has returned the messages of a ticket with the id of a channel, and
\* they make a session with client and operator.
C30_OtherModelSession ==
    /\ pc = "built"
    /\ ChannelMessagesOfDay = {}
    /\ Len(df) = 2
    /\ \A i \in 1..Len(df) :
          \E m \in mail_message : /\ m.model = "helpdesk.ticket"
                                  /\ m.res_id = df[i].channel_id
                                  /\ m.date = df[i].fecha_local
    /\ sessions # {}

\* The mails sent to the address of the user at position k of USUARIOS.
SentTo(k) ==
    {m \in 1..Len(mail_mail) : /\ mail_mail[m].email_to = USUARIOS[k].notify_email
                               /\ mail_mail[m].state = "sent"}

\* The user at position k is to be notified: the run is no dry-run, the
\* record of the user is in Odoo and was read, there is an address, the day
\* is a working day of the user, the objective is above 0 and the hours of
\* the day are below it.
Due(k) ==
    /\ ~ctl_args.dry_run
    /\ res_users[USUARIOS[k].user_id].read = "record"
    /\ USUARIOS[k].notify_email # ""
    /\ habil(res_users[USUARIOS[k].user_id], ctl_args)
    /\ objetivo(res_users[USUARIOS[k].user_id], ctl_args) > 0
    /\ res_users[USUARIOS[k].user_id].horas < objetivo(res_users[USUARIOS[k].user_id], ctl_args)

\* C23 as stated: when a run has ended, every configured user that is to be
\* notified has exactly one mail created and sent, every other user has
\* none, and a dry-run has created no mail.
C23_NotifiesIff ==
    ctl_pc = "done" =>
        /\ \A k \in 1..Len(USUARIOS) : Cardinality(SentTo(k)) = IF Due(k) THEN 1 ELSE 0
        /\ ctl_args.dry_run => mail_mail = <<>>

\* C23: a run has ended with a mail sent to the address of a user whose
\* record could not be read.
C23_UnreadUserNotified ==
    /\ ctl_pc = "done"
    /\ \E k \in 1..Len(USUARIOS) :
          /\ res_users[USUARIOS[k].user_id].read = "fault"
          /\ Cardinality(SentTo(k)) = 1

\* ----------------------------------------------------------- C24
\* The rows of the fetch that the importer is to turn into a ticket: with an
\* IDDiario, a technician listed in TECHNICIAN_USER_MAP, an account that is
\* the ref of a partner, and no ticket of that diary when the run started.
Importable ==
    {k \in DOMAIN rows :
        /\ diario_id_of(rows[k]) # ""
        /\ rows[k].IdTecnico \in DOMAIN TECHNICIAN_USER_MAP
        /\ find_partner_id(res_partner, rows[k].CUENTA) # None
        /\ ~ticket_exists(tickets0, diario_id_of(rows[k]))}

\* C24: when a run of process_diarios ends and no call of it failed, every
\* fetched row with an IDDiario, a listed technician, a matching partner and
\* no ticket yet has one new ticket, assigned to the mapped user, and creados
\* counts these tickets.
C24_MappedTechnicianTicket ==
    (imp_pc = "done" /\ \A i \in DOMAIN imp_calls : imp_calls[i].ok) =>
        /\ \A k \in Importable :
              Cardinality({t \in helpdesk_ticket \ tickets0 :
                  /\ t.x_studio_iddiario = diario_id_of(rows[k])
                  /\ t.user_id = TECHNICIAN_USER_MAP[rows[k].IdTecnico]}) = 1
        /\ imp_creados = Cardinality(Importable)

\* A run ended over a row of technician 1 with a partner and no ticket, and
\* the row was discarded: no ticket was created.
C24_MappedRowDiscarded ==
    /\ imp_pc = "done"
    /\ Importable # {}
    /\ helpdesk_ticket = tickets0
    /\ imp_creados = 0
    /\ descartados >= Cardinality(Importable)

\* ----------------------------------------------------------- C25
\* The rows the loop has gone through whose diary had a ticket when the run
\* started.
AlreadyTicketed ==
    {k \in 1..(row_idx - 1) :
        k \in DOMAIN rows /\ ticket_exists(tickets0, diario_id_of(rows[k]))}

LineCalls == {i \in DOMAIN imp_calls : imp_calls[i].model = "account.analytic.line"}

\* The guard of a line for the diary of call i: a row of the fetch with
\* minutes and a date that parses, a link field, and a ticket created before
\* in the same run.
LineGuard(i) ==
    /\ ticket_timesheet_field # ""
    /\ \E k \in DOMAIN rows :
          /\ k < row_idx
          /\ diario_id_of(rows[k]) = imp_calls[i].diario_id
          /\ rows[k].MINUTOS > 0
          /\ normalize_datetime(rows[k].FECHAINICIO) # ""
    /\ \E j \in 1..(i - 1) :
          /\ imp_calls[j].model = "helpdesk.ticket"
          /\ imp_calls[j].ok
          /\ imp_calls[j].diario_id = imp_calls[i].diario_id

\* The step is a turn of the loop in which the create of the line failed.
LineFailed ==
    /\ Len(imp_calls') > Len(imp_calls)
    /\ imp_calls'[Len(imp_calls')] =
          [model |-> "account.analytic.line",
           diario_id |-> imp_calls'[Len(imp_calls')].diario_id, ok |-> FALSE]

SessionsOfOperator(a) ==
    {<<s.channel_id, s.session_id>> : s \in
        {t \in exp_sessions : \E i \in 1..Len(df_s) :
            /\ df_s[i].channel_id = t.channel_id
            /\ df_s[i].session_id = t.session_id
            /\ df_s[i].es_operador
            /\ df_s[i].autor = a}}

\* C27: after a run of the exporter, the sesiones of every operator of the
\* KPI is the number of qualifying (channel, session) pairs in which that
\* operator wrote.
C27_SesionesPerOperator ==
    exp_pc = "done" =>
        \A a \in DOMAIN tiempo_operador :
            tiempo_operador[a] = Cardinality(SessionsOfOperator(a))

\* Ana answered a client in the first session of channel 1 and in the first
\* session of channel 2, and her sesiones is 1.
C27_TwoChannelsOneSession ==
    /\ exp_pc = "done"
    /\ "Ana" \in DOMAIN tiempo_operador
    /\ {<<1, 0>>, <<2, 0>>} \subseteq SessionsOfOperator("Ana")
    /\ tiempo_operador["Ana"] = 1

\* ----------------------------------------------------------- C28
\* Both programs have run, with the cut of 45 minutes, over the same
\* messages of the WhatsApp channels.
SameMessages ==
    /\ pc = "built"
    /\ exp_pc = "done"
    /\ args.inactividad = INACTIVITY_MINUTES
    /\ LET wa == fetch_messages(mail_message, args.fecha)
           ex == exp_msgs(mail_message, exp_range[1], exp_range[2])
       IN  {wa[i] : i \in 1..Len(wa)} = {ex[i] : i \in 1..Len(ex)}

\* C28: over the same messages and with the cut of 45 minutes, the two
\* programs give every message the same session number in its channel, and
\* keep the same sessions with the same start, end and duration.
C28_SegmentationsAgree ==
    SameMessages =>
        /\ {<<df[i].channel_id, df[i].fecha_local, df[i].autor, df[i].session_id>> :
                i \in 1..Len(df)}
           = {<<df_s[i].channel_id, df_s[i].fecha_ar, df_s[i].autor, df_s[i].session_id>> :
                i \in 1..Len(df_s)}
        /\ {<<s.channel_id, s.session_id, s.inicio, s.fin, s.dur_min>> : s \in sessions}
           = {<<s.channel_id, s.session_id, s.inicio, s.fin, s.dur_min>> : s \in exp_sessions}

\* Both ran over a channel with a message after a gap of more than 45
\* minutes and a session with a client and an operator.
C28_Witness ==
    /\ SameMessages
    /\ \E i \in 1..Len(df_s) : df_s[i].session_id = 1
    /\ \E i \in 2..Len(df_s) :
          /\ df_s[i].channel_id = df_s[i - 1].channel_id
          /\ df_s[i].fecha_ar - df_s[i - 1].fecha_ar = INACTIVITY_MINUTES * SecPerMin
          /\ df_s[i].session_id = df_s[i - 1].session_id
    /\ exp_sessions # {}

====
